---- MODULE Spec2Model ----
(***************************************************************************)
(* Sakura AI: the per-user conversational memory engine of                 *)
(* controllers/chatController.js (retrieveUserContext, updateUserContext   *)
(* and the signal extractors they call) over the document store declared   *)
(* in models/AiBotDbSchema.js, and the Discord bot that delivers the       *)
(* replies (DiscordBot/Discord_Bot_Integration.js).                        *)
(*                                                                         *)
(* A text is a sequence of one-character strings, so that the operators    *)
(* below can index, lowercase, tokenize and match it the way the           *)
(* JavaScript does.  A stored message or response is a TLA+ string; Chars  *)
(* gives its characters.                                                   *)
(***************************************************************************)
EXTENDS Integers, Sequences, FiniteSets, TLC

----------------------------------------------------------------------------
(* Bounds of the model *)

\* processes (concurrent chat requests of one user) calling updateUserContext
NumProcs == 2
\* updateUserContext calls started in one behaviour
MaxCalls == 2

----------------------------------------------------------------------------
(* Texts *)

Chars(s) ==
  CASE s = "" -> <<>>
    [] s = "ok" -> <<"o", "k">>
    [] s = "ann" -> <<"a", "n", "n">>
    [] s = "User" -> <<"U", "s", "e", "r">>
    [] s = "hello" -> <<"h", "e", "l", "l", "o">>
    [] s = "I love Paris" -> <<"I", " ", "l", "o", "v", "e", " ", "P", "a", "r", "i", "s">>
    [] s = "we hate Rome, Paris" -> <<"w", "e", " ", "h", "a", "t", "e", " ", "R", "o", "m", "e", ",", " ", "P", "a", "r", "i", "s">>
    [] s = "i like   x" -> <<"i", " ", "l", "i", "k", "e", " ", " ", " ", "x">>
    [] s = "love pizza love pizza" ->
         <<"l", "o", "v", "e", " ", "p", "i", "z", "z", "a", " ", "l", "o", "v", "e", " ", "p", "i", "z", "z", "a">>
    [] s = "I love pizza" -> <<"I", " ", "l", "o", "v", "e", " ", "p", "i", "z", "z", "a">>
    [] s = "dogs are great" -> <<"d", "o", "g", "s", " ", "a", "r", "e", " ", "g", "r", "e", "a", "t">>
    [] s = "happy love" ->
         <<"h", "a", "p", "p", "y", " ", "l", "o", "v", "e">>
    [] s = "sad and happy" ->
         <<"s", "a", "d", " ", "a", "n", "d", " ", "h", "a", "p", "p", "y">>
    [] s = "happy glad yay {heart}{two hearts}" ->
         <<"h", "a", "p", "p", "y", " ", "g", "l", "a", "d", " ", "y", "a", "y", " ", "U+00E2", "U+00A4", "U+00EF", "U+00B8", "U+00F0", "U+0178", "U+2019", "U+2022">>
    [] s = "I love my job at school" ->
         <<"I", " ", "l", "o", "v", "e", " ", "m", "y", " ", "j", "o", "b", " ", "a", "t", " ", "s", "c", "h", "o", "o", "l">>
    [] s = "start" ->
         <<"s", "t", "a", "r", "t">>

UpperLetters ==
  <<"A", "B", "C", "D", "E", "F", "G", "H", "I", "J", "K", "L", "M",
    "N", "O", "P", "Q", "R", "S", "T", "U", "V", "W", "X", "Y", "Z">>

LowerLetters ==
  <<"a", "b", "c", "d", "e", "f", "g", "h", "i", "j", "k", "l", "m",
    "n", "o", "p", "q", "r", "s", "t", "u", "v", "w", "x", "y", "z">>

Digits == {"0", "1", "2", "3", "4", "5", "6", "7", "8", "9"}

Range(f) == {f[i] : i \in DOMAIN f}

\* String.prototype.toLowerCase / toUpperCase on one character
toLowerCase(c) ==
  IF \E i \in 1..26 : UpperLetters[i] = c
    THEN LowerLetters[CHOOSE i \in 1..26 : UpperLetters[i] = c]
    ELSE c

toUpperCase(c) ==
  IF \E i \in 1..26 : LowerLetters[i] = c
    THEN UpperLetters[CHOOSE i \in 1..26 : LowerLetters[i] = c]
    ELSE c

LowerText(t) == [i \in 1..Len(t) |-> toLowerCase(t[i])]

\* \s of the regular expressions, and the characters "." does not match
Whitespace == {" ", "\t", "\n", "\r"}
LineTerminators == {"\n", "\r"}

\* a word character of natural's WordTokenizer (it splits on everything else)
IsWordChar(c) ==
  c \in Range(UpperLetters) \cup Range(LowerLetters) \cup Digits \cup {"_"}

\* tokenizer.tokenize(text): the maximal runs of word characters, in order
RECURSIVE TokenizeFrom(_, _, _, _)
TokenizeFrom(t, i, cur, acc) ==
  IF i > Len(t)
    THEN IF cur = <<>> THEN acc ELSE Append(acc, cur)
    ELSE IF IsWordChar(t[i])
      THEN TokenizeFrom(t, i + 1, Append(cur, t[i]), acc)
      ELSE TokenizeFrom(t, i + 1, <<>>,
                        IF cur = <<>> THEN acc ELSE Append(acc, cur))

tokenize(t) == TokenizeFrom(t, 1, <<>>, <<>>)

\* [...new Set(arr)]: the first occurrence of each element, in order
RECURSIVE Dedup(_)
Dedup(arr) ==
  IF arr = <<>> THEN <<>>
  ELSE LET init == Dedup(SubSeq(arr, 1, Len(arr) - 1))
           last == arr[Len(arr)]
       IN IF last \in Range(init) THEN init ELSE Append(init, last)

\* arr.filter(pred) for a set of kept values
RECURSIVE FilterSeq(_, _)
FilterSeq(arr, keep) ==
  IF arr = <<>> THEN <<>>
  ELSE LET rest == FilterSeq(Tail(arr), keep)
       IN IF Head(arr) \in keep THEN <<Head(arr)>> \o rest ELSE rest

\* String.prototype.trim
RECURSIVE TrimLeft(_)
TrimLeft(t) ==
  IF t # <<>> /\ Head(t) \in Whitespace THEN TrimLeft(Tail(t)) ELSE t

RECURSIVE TrimRight(_)
TrimRight(t) ==
  IF t # <<>> /\ t[Len(t)] \in Whitespace
    THEN TrimRight(SubSeq(t, 1, Len(t) - 1))
    ELSE t

trim(t) == TrimRight(TrimLeft(t))

\* arr.slice(0, n) and arr.slice(-n)
SliceFirst(arr, n) == SubSeq(arr, 1, IF Len(arr) < n THEN Len(arr) ELSE n)
SliceLast(arr, n) ==
  SubSeq(arr, IF Len(arr) < n THEN 1 ELSE Len(arr) - n + 1, Len(arr))

\* arr.sort(compare) for a comparison by one number, keys[i] being the
\* number of arr[i]: Array.prototype.sort is stable, so an element of equal
\* key keeps its place, and the element with k - 1 elements before it comes
\* k-th (the one-element set names a value that is computed once)
StableSortBy(arr, keys) ==
  LET n == Len(arr) IN
  CHOOSE sorted \in
    {[k \in 1..n |-> arr[CHOOSE i \in 1..n : before[i] = k - 1]] :
       before \in {[i \in 1..n |->
                     Cardinality({j \in 1..n :
                                    \/ keys[j] < keys[i]
                                    \/ keys[j] = keys[i] /\ j < i})]}} : TRUE

----------------------------------------------------------------------------
(* Signal extraction: entities *)

\* the capitalized function words extractEntities leaves out
excludedWords ==
  {<<"I">>,
   <<"A">>,
   <<"T", "h", "e">>,
   <<"A", "n">>,
   <<"A", "n", "d">>,
   <<"B", "u", "t">>,
   <<"O", "r">>,
   <<"F", "o", "r">>,
   <<"N", "o", "r">>,
   <<"A", "s">>,
   <<"A", "t">>,
   <<"B", "y">>,
   <<"F", "r", "o", "m">>,
   <<"I", "n">>,
   <<"I", "n", "t", "o">>,
   <<"N", "e", "a", "r">>,
   <<"O", "f">>,
   <<"O", "n">>,
   <<"T", "o">>,
   <<"W", "i", "t", "h">>}

\* extractEntities(text): the tokens longer than 3 characters whose first
\* character is upper case and has a distinct lower case, without the
\* excluded words; each once, in order of first occurrence
IsPotentialEntity(word) ==
  /\ Len(word) > 3
  /\ word[1] = toUpperCase(word[1])
  /\ word[1] # toLowerCase(word[1])
  /\ word \notin excludedWords

extractEntities(text) ==
  LET words == tokenize(text)
  IN Dedup(FilterSeq(words, {w \in Range(words) : IsPotentialEntity(w)}))

----------------------------------------------------------------------------
(* Signal extraction: preferences *)

\* the literal text lit stands in s at position i
LitAt(s, i, lit) ==
  /\ i + Len(lit) - 1 <= Len(s)
  /\ \A j \in 1..Len(lit) : s[i + j - 1] = lit[j]

\* (?:a|b|...) at position i: the position after the alternative that
\* stands there, 0 when none does.  No alternative of the three patterns is
\* a prefix of another one of the same group, so at most one stands at i.
AltEnd(s, i, alts) ==
  LET hits == {a \in 1..Len(alts) : LitAt(s, i, alts[a])}
  IN IF hits = {} THEN 0
     ELSE i + Len(alts[CHOOSE a \in hits : \A b \in hits : a <= b])

\* (?:\.|\!|\,|\s|$) at position p
Delimiters == {".", "!", ","} \cup Whitespace

DelimAt(s, p) ==
  \/ p = Len(s) + 1
  \/ p <= Len(s) /\ s[p] \in Delimiters

AfterDelim(s, p) == IF p <= Len(s) THEN p + 1 ELSE p

\* (.{3,30}?) at position i followed by something that stands at the next
\* position for the lengths in ok: the lazy quantifier takes the least
\* length.  0 when no length does.
minCapture == 3
maxCapture == 30

CaptureLens(s, i) ==
  {k \in minCapture..maxCapture :
     /\ i + k - 1 <= Len(s)
     /\ \A j \in i..(i + k - 1) : s[j] \notin LineTerminators}

Least(S) == IF S = {} THEN 0 ELSE CHOOSE k \in S : \A m \in S : k <= m

NoMatch == [found |-> FALSE, lastIndex |-> 0, capture |-> <<>>]

\* /(?:SUBJ) (?:VERB) (.{3,30}?)(?:\.|\!|\,|\s|$)/ tried at position i
SimpleAt(s, i, subjects, verbs) ==
  LET a == AltEnd(s, i, subjects)
      b == IF a # 0 /\ LitAt(s, a, <<" ">>) THEN AltEnd(s, a + 1, verbs) ELSE 0
      c == IF b # 0 /\ LitAt(s, b, <<" ">>) THEN b + 1 ELSE 0
      k == IF c = 0 THEN 0
           ELSE Least({n \in CaptureLens(s, c) : DelimAt(s, c + n)})
  IN IF k = 0 THEN NoMatch
     ELSE [found |-> TRUE, lastIndex |-> AfterDelim(s, c + k),
           capture |-> SubSeq(s, c, c + k - 1)]

favoriteLit == <<" ", "f", "a", "v", "o", "r", "i", "t", "e", " ">>
favoriteSubjects == <<<<"m", "y">>, <<"o", "u", "r">>>>
favoriteVerbs == <<<<"i", "s">>, <<"a", "r", "e">>>>

\* the rest of the favorites pattern after a first capture of n characters
\* at c:  " (?:is|are) (.{3,30}?)(?:\.|\!|\,|\s|$)" ; the position after the
\* match, 0 when it does not stand
FavoriteRest(s, p) ==
  LET v == IF LitAt(s, p, <<" ">>) THEN AltEnd(s, p + 1, favoriteVerbs) ELSE 0
      d == IF v # 0 /\ LitAt(s, v, <<" ">>) THEN v + 1 ELSE 0
      k == IF d = 0 THEN 0
           ELSE Least({n \in CaptureLens(s, d) : DelimAt(s, d + n)})
  IN IF k = 0 THEN 0 ELSE AfterDelim(s, d + k)

\* /(?:my|our) favorite (.{3,30}?) (?:is|are) (.{3,30}?)(?:\.|\!|\,|\s|$)/
\* tried at position i; match[1] is the first capture
FavoriteAt(s, i) ==
  LET a == AltEnd(s, i, favoriteSubjects)
      c == IF a # 0 /\ LitAt(s, a, favoriteLit) THEN a + Len(favoriteLit) ELSE 0
      k == IF c = 0 THEN 0
           ELSE Least({n \in CaptureLens(s, c) : FavoriteRest(s, c + n) # 0})
  IN IF k = 0 THEN NoMatch
     ELSE [found |-> TRUE, lastIndex |-> FavoriteRest(s, c + k),
           capture |-> SubSeq(s, c, c + k - 1)]

preferenceTypes == <<"likes", "dislikes", "favorites">>

likeSubjects == <<<<"i">>, <<"m", "e">>, <<"m", "y">>, <<"w", "e">>>>
likeVerbs == <<<<"l", "i", "k", "e">>, <<"l", "o", "v", "e">>, <<"e", "n", "j", "o", "y">>, <<"p", "r", "e", "f", "e", "r">>>>
dislikeVerbs == <<<<"h", "a", "t", "e">>, <<"d", "i", "s", "l", "i", "k", "e">>, <<"d", "o", "n", "'", "t", " ", "l", "i", "k", "e">>, <<"d", "o", " ", "n", "o", "t", " ", "l", "i", "k", "e">>>>

PatternAt(s, i, type) ==
  CASE type = "likes" -> SimpleAt(s, i, likeSubjects, likeVerbs)
    [] type = "dislikes" -> SimpleAt(s, i, likeSubjects, dislikeVerbs)
    [] type = "favorites" -> FavoriteAt(s, i)

\* pattern.exec(combinedText) with the g flag: the leftmost match that
\* starts at lastIndex or later
Exec(s, from, type) ==
  LET starts == {i \in from..Len(s) : PatternAt(s, i, type).found}
  IN IF starts = {} THEN NoMatch
     ELSE PatternAt(s, CHOOSE i \in starts : \A j \in starts : i <= j, type)

\* the body of the while loop for one match: the capture is pushed when,
\* trimmed, it is longer than 2 characters and not yet in the list
PushPreference(list, capture) ==
  LET preference == trim(capture)
  IN IF preference # <<>> /\ Len(preference) > 2 /\ preference \notin Range(list)
       THEN Append(list, preference)
       ELSE list

\* while ((match = pattern.exec(combinedText)) !== null) { ... }
RECURSIVE ExecAll(_, _, _, _)
ExecAll(s, from, type, list) ==
  LET m == Exec(s, from, type)
  IN IF ~m.found THEN list
     ELSE ExecAll(s, m.lastIndex, type, PushPreference(list, m.capture))

\* preferences[type] is created, empty, on the first match of the pattern
\* of that type, before the capture is looked at
HasCategory(s, type) == Exec(s, 1, type).found

\* extractPreferences(message, response): the mapping from the types whose
\* pattern matched to the phrases kept
extractPreferences(message, response) ==
  LET combinedText == LowerText(message \o <<" ">> \o response)
      types == {t \in Range(preferenceTypes) : HasCategory(combinedText, t)}
  IN [t \in types |-> ExecAll(combinedText, 1, t, <<>>)]

----------------------------------------------------------------------------
(* Signal extraction: mood *)

moodNames == <<"affectionate", "happy", "sad", "upset", "bored", "flirty", "neutral">>

moodKeywords(category) ==
  CASE category = "affectionate" ->
       <<<<"l", "o", "v", "e">>,
         <<"m", "i", "s", "s">>,
         <<"a", "d", "o", "r", "e">>,
         <<"c", "a", "r", "e">>,
         <<"x", "o", "x", "o">>,
         <<"h", "e", "a", "r", "t">>,
         <<"d", "a", "r", "l", "i", "n", "g">>,
         <<"b", "a", "b", "e">>,
         <<"h", "o", "n", "e", "y">>>>
    [] category = "happy" ->
       <<<<"h", "a", "p", "p", "y">>,
         <<"g", "l", "a", "d">>,
         <<"e", "x", "c", "i", "t", "e", "d">>,
         <<"y", "a", "y">>,
         <<"w", "o", "o", "h", "o", "o">>,
         <<"j", "o", "y">>,
         <<"d", "e", "l", "i", "g", "h", "t", "e", "d">>,
         <<"w", "o", "n", "d", "e", "r", "f", "u", "l">>,
         <<"a", "m", "a", "z", "i", "n", "g">>>>
    [] category = "sad" ->
       <<<<"s", "a", "d">>,
         <<"u", "p", "s", "e", "t">>,
         <<"t", "i", "r", "e", "d">>,
         <<"e", "x", "h", "a", "u", "s", "t", "e", "d">>,
         <<"d", "e", "p", "r", "e", "s", "s", "e", "d">>,
         <<"u", "n", "h", "a", "p", "p", "y">>,
         <<"m", "i", "s", "s">>,
         <<"l", "o", "n", "e", "l", "y">>,
         <<"d", "o", "w", "n">>>>
    [] category = "upset" ->
       <<<<"a", "n", "g", "r", "y">>,
         <<"a", "n", "n", "o", "y", "e", "d">>,
         <<"f", "r", "u", "s", "t", "r", "a", "t", "e", "d">>,
         <<"m", "a", "d">>,
         <<"f", "u", "r", "i", "o", "u", "s">>,
         <<"i", "r", "r", "i", "t", "a", "t", "e", "d">>,
         <<"h", "a", "t", "e">>,
         <<"r", "a", "g", "e">>,
         <<"f", "e", "d", " ", "u", "p">>>>
    [] category = "bored" ->
       <<<<"b", "o", "r", "e", "d">>,
         <<"w", "h", "a", "t", "e", "v", "e", "r">>,
         <<"m", "e", "h">>,
         <<"d", "u", "l", "l">>,
         <<"u", "n", "i", "n", "t", "e", "r", "e", "s", "t", "e", "d">>,
         <<"t", "e", "d", "i", "o", "u", "s">>,
         <<"m", "u", "n", "d", "a", "n", "e">>,
         <<"b", "l", "a", "n", "d">>>>
    [] category = "flirty" ->
       <<<<"f", "l", "i", "r", "t">>,
         <<"s", "e", "x", "y">>,
         <<"h", "o", "t">>,
         <<"c", "u", "t", "e">>,
         <<"b", "e", "a", "u", "t", "i", "f", "u", "l">>,
         <<"h", "a", "n", "d", "s", "o", "m", "e">>,
         <<"a", "t", "t", "r", "a", "c", "t", "i", "v", "e">>,
         <<"k", "i", "s", "s">>,
         <<"h", "u", "g">>>>
    [] category = "neutral" ->
       <<>>

moodEmojis(category) ==
  CASE category = "affectionate" ->
       <<<<"U+00F0", "U+0178", "U+02DC">>,
         <<"U+00F0", "U+0178", "U+02DC", "U+02DC">>,
         <<"U+00E2", "U+00A4", "U+00EF", "U+00B8">>,
         <<"U+00F0", "U+0178", "U+2019", "U+2022">>,
         <<"U+00F0", "U+0178", "U+2019", "U+2013">>,
         <<"U+00F0", "U+0178", "U+2019", "U+201C">>,
         <<"U+00F0", "U+0178", "U+2019", "U+2014">>,
         <<"U+00F0", "U+0178", "U+2019", "U+017E">>,
         <<"U+00F0", "U+0178", "U+2019", "U+02DC">>>>
    [] category = "happy" ->
       <<<<"U+00F0", "U+0178", "U+02DC", "U+0160">>,
         <<"U+00F0", "U+0178", "U+02DC", "U+0192">>,
         <<"U+00F0", "U+0178", "U+02DC", "U+201E">>,
         <<"U+00F0", "U+0178", "U+02DC">>,
         <<"U+00F0", "U+0178", "U+2122", "U+201A">>,
         <<"U+00F0", "U+0178", "U+02DC", "U+20AC">>,
         <<"U+00F0", "U+0178", "U+02DC", "U+00B8">>,
         <<"U+00F0", "U+0178", "U+02DC", "U+00BA">>,
         <<"U+00F0", "U+0178", "U+00A5", "U+00B3">>>>
    [] category = "sad" ->
       <<<<"U+00F0", "U+0178", "U+02DC", "U+201D">>,
         <<"U+00F0", "U+0178", "U+02DC", "U+00A2">>,
         <<"U+00F0", "U+0178", "U+02DC", "U+00AD">>,
         <<"U+00F0", "U+0178", "U+02DC", "U+00A5">>,
         <<"U+00F0", "U+0178", "U+02DC", "U+00BF">>,
         <<"U+00F0", "U+0178", "U+02DC", "U+201C">>,
         <<"U+00F0", "U+0178", "U+00A5", "U+00BA">>,
         <<"U+00F0", "U+0178", "U+02DC", "U+017E">>,
         <<"U+00F0", "U+0178", "U+02DC", "U+0178">>>>
    [] category = "upset" ->
       <<<<"U+00F0", "U+0178", "U+02DC", "U+00A0">>,
         <<"U+00F0", "U+0178", "U+02DC", "U+00A1">>,
         <<"U+00F0", "U+0178", "U+00A4", "U+00AC">>,
         <<"U+00F0", "U+0178", "U+02DC", "U+00A4">>,
         <<"U+00F0", "U+0178", "U+02DC", "U+2019">>,
         <<"U+00F0", "U+0178", "U+02DC", "U+2018">>,
         <<"U+00F0", "U+0178", "U+02DC", "U+00BE">>,
         <<"U+00F0", "U+0178", "U+2019", "U+00A2">>,
         <<"U+00F0", "U+0178", "U+2018", "U+00BF">>>>
    [] category = "bored" ->
       <<<<"U+00F0", "U+0178", "U+02DC", "U+2019">>,
         <<"U+00F0", "U+0178", "U+2122", "U+201E">>,
         <<"U+00F0", "U+0178", "U+02DC">>,
         <<"U+00F0", "U+0178", "U+02DC", "U+2018">>,
         <<"U+00F0", "U+0178", "U+02DC", "U+00B4">>,
         <<"U+00F0", "U+0178", "U+2019", "U+00A4">>,
         <<"U+00F0", "U+0178", "U+00A5", "U+00B1">>,
         <<"U+00F0", "U+0178", "U+02DC", "U+00AA">>>>
    [] category = "flirty" ->
       <<<<"U+00F0", "U+0178", "U+02DC">>,
         <<"U+00F0", "U+0178", "U+02DC", "U+2030">>,
         <<"U+00F0", "U+0178", "U+201D", "U+00A5">>,
         <<"U+00F0", "U+0178", "U+2019", "U+2039">>,
         <<"U+00F0", "U+0178", "U+02DC", "U+02C6">>,
         <<"U+00F0", "U+0178", "U+2018", "U+20AC">>,
         <<"U+00F0", "U+0178", "U+00A4", "U+00A4">>,
         <<"U+00F0", "U+0178", "U+2019", "U+00A6">>,
         <<"U+00F0", "U+0178", "U+2018", "U+2026">>>>
    [] category = "neutral" ->
       <<>>

\* rank of the double  0 + 0.2 (k times) + 0.3 (e times)  among all such sums
ScoreRank0 ==
  <<
    <<0, 2, 5, 9, 13, 18, 25, 32, 37, 42>>,
    <<1, 4, 8, 12, 17, 23, 30, 35, 40, 45>>,
    <<3, 7, 11, 15, 21, 28, 34, 39, 44, 49>>,
    <<6, 10, 14, 19, 26, 32, 37, 42, 47, 52>>,
    <<8, 12, 17, 23, 30, 35, 40, 45, 50, 55>>,
    <<11, 15, 21, 28, 34, 39, 44, 49, 54, 59>>,
    <<13, 18, 25, 32, 37, 42, 47, 52, 57, 62>>,
    <<16, 22, 30, 35, 40, 45, 50, 55, 60, 64>>,
    <<20, 27, 33, 38, 43, 48, 53, 58, 63, 66>>,
    <<24, 31, 36, 41, 46, 51, 56, 61, 65, 68>>
  >>

\* s.includes(sub)
Includes(s, sub) == \E i \in 1..(Len(s) + 1) : LitAt(s, i, sub)

HitCount(s, list) == Cardinality({i \in 1..Len(list) : Includes(s, list[i])})

\* const moodKeywords = { ... score: 0 ... neutral: { ... score: 0.2 } }: the
\* keyword and emoji additions made to each score, none yet
FreshScores == [category \in Range(moodNames) |-> [keywords |-> 0, emojis |-> 0]]

\* a detectMood whose moodKeywords table outlives the call
ScoresCarriedOver(previous) == previous

\* the scores a call of detectMood starts from, previous being those the
\* call before it left: moodKeywords is a const of the function body, made
\* anew by every call
ScoresAtCall(previous) == FreshScores

\* the scoring loop: 0.2 is added for every keyword lowerMsg includes, 0.3
\* for every emoji message includes
Scored(scores, message) ==
  [category \in Range(moodNames) |->
     [keywords |-> scores[category].keywords
                     + HitCount(LowerText(message), moodKeywords(category)),
      emojis |-> scores[category].emojis
                   + HitCount(message, moodEmojis(category))]]

\* data.score as the rank of the double it holds: neutral starts from its
\* base score 0.2, which is the double of one keyword hit
ScoreRank(scores, category) ==
  ScoreRank0[scores[category].keywords + (IF category = "neutral" THEN 2 ELSE 1)]
            [scores[category].emojis + 1]

\* data.score after the scoring loop of one call on the message
moodScore(message, category) == ScoreRank(Scored(FreshScores, message), category)

\* a loop that keeps the last greatest score
RECURSIVE HighestFromKeepsLast(_, _, _, _)
HighestFromKeepsLast(scores, i, highestScore, detectedMood) ==
  IF i > Len(moodNames) THEN detectedMood
  ELSE IF ScoreRank(scores, moodNames[i]) >= highestScore
         THEN HighestFromKeepsLast(scores, i + 1, ScoreRank(scores, moodNames[i]),
                                   moodNames[i])
         ELSE HighestFromKeepsLast(scores, i + 1, highestScore, detectedMood)

\* the loop that keeps the first strictly greatest score, from highestScore
\* = 0 and detectedMood = "neutral"
RECURSIVE HighestFrom(_, _, _, _)
HighestFrom(scores, i, highestScore, detectedMood) ==
  IF i > Len(moodNames) THEN detectedMood
  ELSE IF ScoreRank(scores, moodNames[i]) > highestScore
         THEN HighestFrom(scores, i + 1, ScoreRank(scores, moodNames[i]),
                          moodNames[i])
         ELSE HighestFrom(scores, i + 1, highestScore, detectedMood)

\* detectMood(message) when the call before it left the scores previous
detectMoodAfter(previous, message) ==
  HighestFrom(Scored(ScoresAtCall(previous), message), 1, 0, "neutral")

detectMood(message) == detectMoodAfter(FreshScores, message)

----------------------------------------------------------------------------
(* Text normalizer and relevance scorer *)

\* the stop words of preprocessText
stopWords ==
  {<<"a">>, <<"a", "n">>, <<"t", "h", "e">>, <<"a", "n", "d">>,
   <<"o", "r">>, <<"b", "u", "t">>, <<"i", "s">>, <<"a", "r", "e">>,
   <<"w", "a", "s">>, <<"w", "e", "r", "e">>, <<"b", "e">>,
   <<"b", "e", "e", "n">>, <<"b", "e", "i", "n", "g">>, <<"i", "n">>,
   <<"o", "n">>, <<"a", "t">>, <<"t", "o">>, <<"f", "o", "r">>,
   <<"w", "i", "t", "h">>, <<"b", "y">>, <<"a", "b", "o", "u", "t">>,
   <<"l", "i", "k", "e">>, <<"t", "h", "r", "o", "u", "g", "h">>,
   <<"o", "v", "e", "r">>, <<"b", "e", "f", "o", "r", "e">>,
   <<"a", "f", "t", "e", "r">>, <<"b", "e", "t", "w", "e", "e", "n">>,
   <<"u", "n", "d", "e", "r">>, <<"a", "b", "o", "v", "e">>, <<"o", "f">>,
   <<"d", "u", "r", "i", "n", "g">>, <<"i">>, <<"y", "o", "u">>,
   <<"h", "e">>, <<"s", "h", "e">>, <<"i", "t">>, <<"w", "e">>,
   <<"t", "h", "e", "y">>, <<"m", "e">>, <<"h", "i", "m">>,
   <<"h", "e", "r">>, <<"u", "s">>, <<"t", "h", "e", "m">>, <<"m", "y">>,
   <<"y", "o", "u", "r">>, <<"h", "i", "s">>, <<"i", "t", "s">>,
   <<"o", "u", "r">>, <<"t", "h", "e", "i", "r">>}

\* natural.PorterStemmer.stem on the words of the model's texts
stem(token) ==
  CASE token = <<"d", "o", "g", "s">> -> <<"d", "o", "g">>
    [] OTHER -> token

\* tokens.join(' ')
RECURSIVE Join(_)
Join(tokens) ==
  IF tokens = <<>> THEN <<>>
  ELSE IF Len(tokens) = 1 THEN tokens[1]
  ELSE tokens[1] \o <<" ">> \o Join(Tail(tokens))

\* preprocessText(text): lower case, tokens, without the stop words and the
\* tokens of at most 2 characters, stemmed, joined by spaces
preprocessText(text) ==
  IF text = <<>> THEN <<>>
  ELSE LET tokens == tokenize(LowerText(text))
           filteredTokens ==
             FilterSeq(tokens, {w \in Range(tokens) : w \notin stopWords /\ Len(w) > 2})
       IN Join([i \in 1..Len(filteredTokens) |-> stem(filteredTokens[i])])

\* tfidf.addDocument(string): the terms of the document, with repetitions
\* (natural's own stop words are not among the stems of the model's texts)
buildDocument(text) == tokenize(LowerText(text))

\* tf(term, document): how often the term stands in the document
tf(term, document) == Cardinality({k \in DOMAIN document : document[k] = term})

\* 1 + Math.log(N / (1 + df)) in millionths, for N documents (rows, from 1)
\* of which df hold the term (columns, from 0)
idfTable ==
  <<
    <<1000000, 306853>>,
    <<1693147, 1000000, 594535>>,
    <<2098612, 1405465, 1000000, 712318>>,
    <<2386294, 1693147, 1287682, 1000000, 776856>>,
    <<2609438, 1916291, 1510826, 1223144, 1000000, 817678>>,
    <<2791759, 2098612, 1693147, 1405465, 1182322, 1000000, 845849>>,
    <<2945910, 2252763, 1847298, 1559616, 1336472, 1154151, 1000000, 866469>>,
    <<3079442, 2386294, 1980829, 1693147, 1470004, 1287682, 1133531, 1000000, 882217>>,
    <<3197225, 2504077, 2098612, 1810930, 1587787, 1405465, 1251314, 1117783, 1000000, 894639>>,
    <<3302585, 2609438, 2203973, 1916291, 1693147, 1510826, 1356675, 1223144, 1105361, 1000000, 904690>>,
    <<3397895, 2704748, 2299283, 2011601, 1788457, 1606136, 1451985, 1318454, 1200671, 1095310, 1000000, 912989>>,
    <<3484907, 2791759, 2386294, 2098612, 1875469, 1693147, 1538997, 1405465, 1287682, 1182322, 1087011, 1000000, 919957>>,
    <<3564949, 2871802, 2466337, 2178655, 1955511, 1773190, 1619039, 1485508, 1367725, 1262364, 1167054, 1080043, 1000000, 925892>>,
    <<3639057, 2945910, 2540445, 2252763, 2029619, 1847298, 1693147, 1559616, 1441833, 1336472, 1241162, 1154151, 1074108, 1000000, 931007>>,
    <<3708050, 3014903, 2609438, 2321756, 2098612, 1916291, 1762140, 1628609, 1510826, 1405465, 1310155, 1223144, 1143101, 1068993, 1000000, 935461>>,
    <<3772589, 3079442, 2673976, 2386294, 2163151, 1980829, 1826679, 1693147, 1575364, 1470004, 1374693, 1287682, 1207639, 1133531, 1064539, 1000000, 939375>>
  >>

\* TfIdf.prototype.idf(term)
idf(term, documents) ==
  idfTable[Len(documents)]
          [Cardinality({d \in DOMAIN documents : term \in Range(documents[d])}) + 1]

\* TfIdf.prototype.tfidf(terms, d): the sum over the terms of tf * idf
RECURSIVE tfidfFrom(_, _, _, _)
tfidfFrom(terms, k, d, documents) ==
  IF k > Len(terms) THEN 0
  ELSE tf(terms[k], documents[d]) * idf(terms[k], documents)
         + tfidfFrom(terms, k + 1, d, documents)

tfidf(terms, d, documents) == tfidfFrom(terms, 1, d, documents)

----------------------------------------------------------------------------
(* History merger *)

RECENT_N == 5
RELEVANT_K == 8
MAX_TOTAL == 10

\* a turn stored without a timestamp
NoTimestamp == -1

\* what a turn stored without its message, or without its response, holds
\* there
NoText == "undefined"

\* conv.message || '' and conv.response || ''
OrEmpty(text) == IF text = NoText THEN "" ELSE text

\* Date.prototype.toString, which the template literal of convId applies to
\* a stored Date, gives the time to the second
MsPerSecond == 1000

\* `${conv.message || ''}-${conv.timestamp || Date.now()}`
convId(conv, dateNow) ==
  <<OrEmpty(conv.message),
    IF conv.timestamp = NoTimestamp
      THEN <<"Date.now", dateNow>>
      ELSE <<"Date", conv.timestamp \div MsPerSecond>>>>

\* topRelevantByScore.forEach: a turn is pushed to recentHistory unless its
\* convId is included already
RECURSIVE AddRelevant(_, _, _, _)
AddRelevant(topRelevantByScore, merged, includedConversations, dateNow) ==
  IF topRelevantByScore = <<>> THEN merged
  ELSE LET conv == Head(topRelevantByScore)
           id == convId(conv, dateNow)
       IN IF id \in includedConversations
            THEN AddRelevant(Tail(topRelevantByScore), merged,
                             includedConversations, dateNow)
            ELSE AddRelevant(Tail(topRelevantByScore), Append(merged, conv),
                             includedConversations \cup {id}, dateNow)

\* new Date(a.timestamp || 0) - new Date(b.timestamp || 0)
SortTime(conv) == IF conv.timestamp = NoTimestamp THEN 0 ELSE conv.timestamp

SortTimes(merged) == [i \in DOMAIN merged |-> SortTime(merged[i])]

\* a merger that does not sort
CutUnsorted(merged) == SliceFirst(merged, MAX_TOTAL)

\* a merger that does not cut
SortUncut(merged) == StableSortBy(merged, SortTimes(merged))

\* [...recentHistory].sort(by timestamp).slice(0, 10)
SortAndCut(merged) ==
  SliceFirst(StableSortBy(merged, SortTimes(merged)), MAX_TOTAL)

----------------------------------------------------------------------------
(* The stored UserContext document of one user, and updateUserContext *)

VARIABLES
  userExists,           \* a UserContext document of this userId is stored
  username,             \* its fields (models/AiBotDbSchema.js)
  mood,
  preferences,
  contextTokens,
  lastActive,
  conversationHistory,
  now,                  \* the clock new Date() reads, in milliseconds
  appended,             \* every turn ever pushed to the history, in order
  pc,                   \* where each call of updateUserContext stands
  updatedUser,          \* the document findOneAndUpdate returned to it
  calls,                \* calls of updateUserContext started so far
  globalExists,         \* the singleton GlobalContext document is stored
  botPersonality,       \* its fields
  recentGlobalTopics,
  lastUpdate,
  query,                \* the message of the chat request being served
  rpc,                  \* where its call of retrieveUserContext stands
  result,               \* what retrieveUserContext returned to it
  chat,                 \* each chat request: where chatController stands,
                        \* what it was sent and what it answered
  pushedTopics,         \* every topic ever pushed to recentGlobalTopics
  moodScores,           \* the score fields of detectMood's moodKeywords
  detected,             \* the calls of detectMood made so far
  discord               \* the Discord bot's handler of one message: where
                        \* it stands and the lengths of the texts it passed
                        \* to message.reply and message.channel.send

docVars == <<userExists, username, mood, preferences, contextTokens,
             lastActive, conversationHistory>>
storeVars == <<docVars, now, appended, pc, updatedUser, calls>>
globalVars == <<globalExists, botPersonality, recentGlobalTopics, lastUpdate>>
retrievalVars == <<query, rpc, result>>
chatVars == <<chat, pushedTopics>>
moodVars == <<moodScores, detected>>

Procs == 1..NumProcs

\* the retention policy of updateUserContext
MAX_HISTORY == 50
KEEP_FIRST == 5
KEEP_LAST == 45

Messages == {"hello", "I love Paris", "we hate Rome, Paris", "i like   x"}
\* the messages of the histories retrieveUserContext is tried on, and its
\* queries
RetrievalMessages == {"hello", "I love pizza"}
Queries == {"I love pizza", "dogs are great"}
\* a message that holds each term of the query "I love pizza" twice
RepeatedTerms == "love pizza love pizza"
Responses == {"ok"}
\* the messages chatController is tried on
ChatMessages == {"hello", "I love my job at school", "start"}
Usernames == {"ann"}
\* milliseconds that pass between two store operations
Elapsed == {0, 1}

\* a trim that keeps one turn too many at the recent end
TrimKeepsOneMore(history) ==
  SliceFirst(history, KEEP_FIRST) \o SliceLast(history, KEEP_LAST + 1)

\* a trim that keeps the last MAX_HISTORY turns and no founding turns
TrimKeepsNewestOnly(history) == SliceLast(history, MAX_HISTORY)

\* a trim that stores the newest turns ahead of the founding ones
TrimNewestAhead(history) ==
  SliceLast(history, KEEP_LAST) \o SliceFirst(history, KEEP_FIRST)

\* [...keepFirst, ...keepLast]
TrimmedHistory(history) ==
  SliceFirst(history, KEEP_FIRST) \o SliceLast(history, KEEP_LAST)

\* an update that $sets the tokens to the extracted entities
SetInsteadOfAddToSet(arr, each) == IF each = <<>> THEN arr ELSE each

\* $addToSet: { contextTokens: { $each: extractedEntities } }
RECURSIVE AddToSet(_, _)
AddToSet(arr, each) ==
  IF each = <<>> THEN arr
  ELSE AddToSet(IF Head(each) \in Range(arr) THEN arr ELSE Append(arr, Head(each)),
                Tail(each))

\* what the extractors give for the texts of the model, computed once
entitiesOf == [m \in Messages \cup ChatMessages |-> extractEntities(Chars(m))]
preferencesOf ==
  [m \in Messages \cup ChatMessages, r \in Responses |-> extractPreferences(Chars(m), Chars(r))]
moodOf == [m \in Messages \cup ChatMessages |-> detectMood(Chars(m))]

\* an update that merges the extracted categories into the stored mapping
MergePreferences(stored, extractedPreferences) ==
  [c \in DOMAIN stored \cup DOMAIN extractedPreferences |->
     IF c \in DOMAIN extractedPreferences THEN extractedPreferences[c] ELSE stored[c]]

\* update.$set.preferences is set only when the extracted mapping has a key
SetPreferences(stored, extractedPreferences) ==
  IF DOMAIN extractedPreferences # {} THEN extractedPreferences ELSE stored

\* nothing returned yet
NoResult ==
  [userInfo |-> <<>>, relevantHistory |-> <<>>, recentHistory |-> <<>>,
   botPersonality |-> "", globalTopics |-> <<>>, previousBotMessage |-> ""]

NoUser ==
  [username |-> "", mood |-> "", preferences |-> <<>>, contextTokens |-> <<>>,
   lastActive |-> 0, conversationHistory |-> <<>>]

StoredUser ==
  [username |-> username, mood |-> mood, preferences |-> preferences,
   contextTokens |-> contextTokens, lastActive |-> lastActive,
   conversationHistory |-> conversationHistory]

\* a chat request that has not arrived
NoRequest ==
  [at |-> "idle", message |-> "", userName |-> "", context |-> "none",
   generator |-> "none", reply |-> "",
   write |-> "none", update |-> "none", sent |-> "none", body |-> "",
   aggregator |-> "none", topics |-> <<>>]

\* no chat request has arrived
NoChat ==
  /\ chat = [p \in Procs |-> NoRequest]
  /\ pushedTopics = <<>>

\* detectMood has not been called
NoMood ==
  /\ moodScores = FreshScores
  /\ detected = <<>>

\* the Discord bot has posted the user's message to the server and awaits
\* its answer
IdleDelivery ==
  [at |-> "waiting", botResponse |-> 0, text |-> 0, i |-> 0, chunkIndex |-> 0,
   passed |-> <<>>]

NoDelivery == discord = IdleDelivery

\* a history of n turns recorded one after the other, a second apart
SeedTurn(i) ==
  [id |-> i, message |-> "hello", response |-> "ok", timestamp |-> MsPerSecond * i]

SeedHistory(n) == [i \in 1..n |-> SeedTurn(i)]

SeedLens == {0, KEEP_FIRST - 1, MAX_HISTORY - 1, MAX_HISTORY}

StoreInit ==
  \E n \in SeedLens :
    /\ userExists = (n > 0)
    /\ username = IF n > 0 THEN "ann" ELSE ""
    /\ mood = IF n > 0 THEN "neutral" ELSE ""
    /\ preferences = <<>>
    /\ contextTokens = <<>>
    /\ lastActive = MsPerSecond * n
    /\ conversationHistory = SeedHistory(n)
    /\ now = MsPerSecond * n
    /\ appended = SeedHistory(n)
    /\ pc = [p \in Procs |-> "idle"]
    /\ updatedUser = [p \in Procs |-> NoUser]
    /\ calls = 0
    /\ globalExists = FALSE
    /\ botPersonality = ""
    /\ recentGlobalTopics = <<>>
    /\ lastUpdate = 0
    /\ query = ""
    /\ rpc = "none"
    /\ result = NoResult
    /\ NoChat
    /\ NoMood
    /\ NoDelivery

\* the turn updateUserContext pushes: {message, response, timestamp: new
\* Date()} (the schema has no field for its entities)
NewTurn(message, response, date) ==
  [id |-> Len(appended) + 1, message |-> message, response |-> response,
   timestamp |-> date]

\* $set where $push belongs
SetTurn(history, turn) == <<turn>>
\* $push of one turn onto conversationHistory (an absent array is created)
PushTurn(history, turn) == Append(history, turn)

\* updateUserContext up to the return of findOneAndUpdate: one atomic
\* update of the document with $set, $push and $addToSet, upsert: true,
\* new: true
UpsertUser(p, name, message, response, dt) ==
  /\ pc[p] = "idle"
  /\ calls < MaxCalls
  /\ calls' = calls + 1
  /\ now' = now + dt
  /\ userExists' = TRUE
  /\ username' = name
  /\ lastActive' = now + dt
  /\ mood' = moodOf[message]
  /\ preferences' = SetPreferences(preferences, preferencesOf[message, response])
  /\ contextTokens' = AddToSet(contextTokens, entitiesOf[message])
  /\ conversationHistory' =
       PushTurn(conversationHistory, NewTurn(message, response, now + dt))
  /\ appended' = Append(appended, NewTurn(message, response, now + dt))
  /\ updatedUser' = [updatedUser EXCEPT ![p] = StoredUser']
  /\ pc' = [pc EXCEPT ![p] =
              IF Len(conversationHistory') > MAX_HISTORY THEN "trim" ELSE "idle"]

\* a call of updateUserContext alone
Upsert(p, name, message, response, dt) ==
  /\ UpsertUser(p, name, message, response, dt)
  /\ UNCHANGED <<globalVars, retrievalVars, chatVars, moodVars, discord>>

\* the follow-up updateOne that stores the trimmed copy of the history the
\* call read, and the return
TrimUser(p) ==
  /\ pc[p] = "trim"
  /\ conversationHistory' = TrimmedHistory(updatedUser[p].conversationHistory)
  /\ pc' = [pc EXCEPT ![p] = "idle"]
  /\ UNCHANGED <<userExists, username, mood, preferences, contextTokens,
                 lastActive, now, appended, updatedUser, calls>>

Trim(p) ==
  /\ TrimUser(p)
  /\ UNCHANGED <<globalVars, retrievalVars, chatVars, moodVars, discord>>

StoreNext ==
  \/ \E p \in Procs, name \in Usernames, message \in Messages,
        response \in Responses, dt \in Elapsed :
       Upsert(p, name, message, response, dt)
  \/ \E p \in Procs : Trim(p)

vars == <<storeVars, globalVars, retrievalVars, chatVars, moodVars, discord>>

Init == StoreInit

Next == StoreNext

Spec == Init /\ [][Next]_vars

----------------------------------------------------------------------------
(* retrieveUserContext *)

\* what the scorer needs of the model's texts, computed once
turnDocument ==
  [m \in Messages \cup RetrievalMessages \cup {RepeatedTerms, ""},
   r \in Responses \cup {""} |->
     buildDocument(preprocessText(Chars(m) \o <<" ">> \o Chars(r)))]
queryDocument == [q \in Queries |-> buildDocument(preprocessText(Chars(q)))]

\* the corpus: the processed message first, then one document a turn
Documents(q, history) ==
  <<queryDocument[q]>> \o
    [i \in 1..Len(history) |->
       turnDocument[OrEmpty(history[i].message), OrEmpty(history[i].response)]]

\* scores attributed one turn late: turn i is given the score of document
\* i - 1, the first turn that of the query
similarityScoresShifted(q, history, documents) ==
  [i \in 1..Len(history) |->
     [index |-> i - 1, conversation |-> history[i],
      score |-> tfidf(queryDocument[q], i, documents)]]

\* similarityScores: tfidf.tfidfs(processedMessage, ...) without the score
\* of document 0, with the turn conversationMap holds for each document
similarityScores(q, history, documents) ==
  [i \in 1..Len(history) |->
     [index |-> i - 1, conversation |-> history[i],
      score |-> tfidf(queryDocument[q], i + 1, documents)]]

\* a selection of the turns with the lowest scores
topRelevantLowestFirst(scores) ==
  LET sorted == StableSortBy(scores, [i \in DOMAIN scores |-> scores[i].score])
      top == SliceFirst(sorted, RELEVANT_K)
  IN [k \in 1..Len(top) |-> top[k].conversation]

\* .sort((a, b) => b.score - a.score).slice(0, 8).map(item => item.conversation)
topRelevantByScore(scores) ==
  LET sorted == StableSortBy(scores, [i \in DOMAIN scores |-> 0 - scores[i].score])
      top == SliceFirst(sorted, RELEVANT_K)
  IN [k \in 1..Len(top) |-> top[k].conversation]

\* the array recentHistory names once the relevant turns have been pushed
\* to it: the last 5 turns, then the top turns whose convId was not
\* included; Date.now() reads dateNow in the first loop and laterNow in the
\* second
mergedHistory(history, topRelevant, dateNow, laterNow) ==
  LET recent == SliceLast(history, RECENT_N)
      included == {convId(recent[i], dateNow) : i \in DOMAIN recent}
  IN AddRelevant(topRelevant, recent, included, laterNow)

DefaultPersonality == "toxic, sassy, and slightly unhinged girlfriend AI"
Null == "null"

\* the first @(\w+) of the message
MentionOf(text) ==
  LET ats == {i \in 1..(Len(text) - 1) : text[i] = "@" /\ IsWordChar(text[i + 1])}
      at == Least(ats)
      ends == {e \in (at + 1)..Len(text) :
                 /\ \A j \in (at + 1)..e : IsWordChar(text[j])
                 /\ (e = Len(text) \/ ~IsWordChar(text[e + 1]))}
  IN IF ats = {} THEN <<>> ELSE SubSeq(text, at + 1, Least(ends))

\* retrieveUserContext(userId, message) for a stored user
\* (merged is the array recentHistory names at the return)
ContextOfStoredUser(q, merged) ==
     [userInfo |->
        [username |-> IF username # "" THEN Chars(username)
                      ELSE IF MentionOf(Chars(q)) # <<>> THEN MentionOf(Chars(q))
                      ELSE Chars("User"),
         mood |-> IF mood # "" THEN mood ELSE "neutral",
         preferences |-> preferences,
         lastActive |-> lastActive,
         contextTokens |-> contextTokens],
      relevantHistory |->
        IF Len(conversationHistory) > 0 THEN SortAndCut(merged) ELSE <<>>,
      recentHistory |-> merged,
      botPersonality |->
        IF globalExists /\ botPersonality # "" THEN botPersonality
        ELSE DefaultPersonality,
      globalTopics |->
        IF globalExists THEN SliceLast(recentGlobalTopics, RECENT_N) ELSE <<>>,
      previousBotMessage |->
        IF Len(conversationHistory) > 0
          THEN conversationHistory[Len(conversationHistory)].response
          ELSE Null]

\* retrieveUserContext(userId, message) when findOne finds no document
\* (the object has a globalPersonality and no botPersonality, no globalTopics)
ContextOfNewUser ==
  [userInfo |-> [mood |-> "neutral"], relevantHistory |-> <<>>,
   recentHistory |-> <<>>, globalPersonality |-> Null,
   previousBotMessage |-> Null]

\* one call of retrieveUserContext; dt milliseconds pass while it runs
Retrieve(dt) ==
  /\ rpc = "called"
  /\ rpc' = "returned"
  /\ now' = now + dt
  /\ IF userExists
       THEN \E documents \in {Documents(query, conversationHistory)} :
            \E scores \in {similarityScores(query, conversationHistory, documents)} :
            \E topRelevant \in {topRelevantByScore(scores)} :
            \E merged \in {mergedHistory(conversationHistory, topRelevant,
                                         now, now + dt)} :
              result' = ContextOfStoredUser(query, merged)
       ELSE result' = ContextOfNewUser
  /\ UNCHANGED <<docVars, appended, pc, updatedUser, calls, globalVars, query,
                 chatVars, moodVars, discord>>

\* the object the catch block of retrieveUserContext returns
ContextOnError ==
  [userInfo |-> [mood |-> "neutral"], relevantHistory |-> <<>>,
   recentHistory |-> <<>>, botPersonality |-> "friendly and helpful",
   previousBotMessage |-> Null]

\* a retrieveUserContext that lets the error reach its caller
RetrieveRethrows == [rpc |-> "raised", result |-> NoResult]

\* catch (error): the error is logged and the minimal context returned
RetrieveCatch == [rpc |-> "recovered", result |-> ContextOnError]

\* a call of retrieveUserContext in which the read of the user profile, the
\* read of the global profile or a step after them throws
RetrieveFails(dt) ==
  /\ rpc = "called"
  /\ rpc' = RetrieveCatch.rpc
  /\ now' = now + dt
  /\ result' = RetrieveCatch.result
  /\ UNCHANGED <<docVars, appended, pc, updatedUser, calls, globalVars, query,
                 chatVars, moodVars, discord>>

\* the histories retrieveUserContext is tried on: turns recorded a second
\* apart, but for one turn (at) that was recorded in the same millisecond as
\* the turn before it, or a millisecond after it
MaxTurns == 11

TurnKinds == {"apart", "sameMs", "sameSecond"}

StoredTurn(i, message, kind, at) ==
  [id |-> i,
   message |-> IF i = at /\ kind \in {"noMessage", "noText"} THEN NoText ELSE message,
   response |-> IF i = at /\ kind \in {"noResponse", "noText"} THEN NoText ELSE "ok",
   timestamp |-> IF kind \notin {"missing", "sameMs", "sameSecond"} \/ i # at
                   THEN MsPerSecond * i
                 ELSE IF kind = "missing" THEN NoTimestamp
                 ELSE IF kind = "sameMs" THEN MsPerSecond * (i - 1)
                 ELSE MsPerSecond * (i - 1) + 1]

\* every sequence of messages with the turns a second apart, and the
\* histories of one message with one turn close to the one before it
StoredHistories(n) ==
  {[i \in 1..n |-> StoredTurn(i, ms[i], "apart", 0)] :
     ms \in [1..n -> RetrievalMessages]}
  \cup
  {[i \in 1..n |-> StoredTurn(i, x[1], x[2], x[3])] :
     x \in RetrievalMessages \X (TurnKinds \ {"apart"}) \X (2..n)}

\* histories with one turn (at) that was stored without a timestamp
LegacyHistories(n) ==
  {[i \in 1..n |-> StoredTurn(i, x[1], "missing", x[2])] :
     x \in RetrievalMessages \X (1..n)}

\* histories with one turn (at) that was stored without its message, without
\* its response, or without both
TextlessHistories(n) ==
  {[i \in 1..n |-> StoredTurn(i, x[1], x[2], x[3])] :
     x \in RetrievalMessages \X {"noMessage", "noResponse", "noText"} \X (1..n)}

\* histories whose turn 3, outside the last 5, has the message of the query,
\* the other turns holding no term of the query, or each of them twice
RankedHistories(n) ==
  IF n < 3 + RECENT_N THEN {}
  ELSE {[i \in 1..n |->
           StoredTurn(i, IF i = 3 THEN "I love pizza" ELSE ms[i], "apart", 0)] :
          ms \in [1..n -> {"hello", RepeatedTerms}]}

RetrieveInitWith(histories, queries) ==
  \E history \in histories, q \in queries, g \in BOOLEAN :
    \E n \in {Len(history)} :
      /\ userExists = (n > 0)
      /\ username = IF n > 0 THEN "ann" ELSE ""
      /\ mood = IF n > 0 THEN "neutral" ELSE ""
      /\ preferences = <<>>
      /\ contextTokens = <<>>
      /\ lastActive = MsPerSecond * n
      /\ conversationHistory = history
      /\ now = MsPerSecond * (n + 1)
      /\ appended = history
      /\ pc = [p \in Procs |-> "idle"]
      /\ updatedUser = [p \in Procs |-> NoUser]
      /\ calls = 0
      /\ globalExists = g
      /\ botPersonality = IF g THEN "sweet" ELSE ""
      /\ recentGlobalTopics = <<>>
      /\ lastUpdate = 0
      /\ query = q
      /\ rpc = "called"
      /\ result = NoResult
      /\ NoChat
      /\ NoMood
      /\ NoDelivery

RetrieveInit ==
  RetrieveInitWith(UNION {StoredHistories(n) : n \in 0..MaxTurns}, Queries)

RetrieveNext ==
  \/ \E dt \in Elapsed : Retrieve(dt)
  \/ \E dt \in Elapsed : RetrieveFails(dt)

SpecRetrieve == RetrieveInit /\ [][RetrieveNext]_vars

\* retrieveUserContext on a history with a turn that has no timestamp, or
\* no text
LegacyInit ==
  RetrieveInitWith(UNION {LegacyHistories(n) \cup TextlessHistories(n) : n \in 1..MaxTurns},
                   Queries)

SpecLegacy == LegacyInit /\ [][RetrieveNext]_vars

\* retrieveUserContext on a query that is the message of turn 3
RankInit ==
  RetrieveInitWith(UNION {RankedHistories(n) : n \in 1..MaxTurns}
                     \cup UNION {StoredHistories(n) : n \in (3 + RECENT_N)..(4 + RECENT_N)},
                   {"I love pizza"})

SpecRank == RankInit /\ [][RetrieveNext]_vars

----------------------------------------------------------------------------
(* chatController: one chat request from its arrival to its response, and
   the global aggregator updateGlobalContext it may start *)

topicNames ==
  <<"relationships", "work", "school", "entertainment",
    "feelings", "health", "technology", "food",
    "travel">>

topicKeywords(topic) ==
  CASE topic = "relationships" ->
         <<<<"l", "o", "v", "e">>,
           <<"b", "o", "y", "f", "r", "i", "e", "n", "d">>,
           <<"g", "i", "r", "l", "f", "r", "i", "e", "n", "d">>,
           <<"d", "a", "t", "i", "n", "g">>,
           <<"r", "e", "l", "a", "t", "i", "o", "n", "s", "h", "i", "p">>,
           <<"c", "r", "u", "s", "h">>,
           <<"m", "a", "r", "r", "i", "e", "d">>,
           <<"w", "e", "d", "d", "i", "n", "g">>>>
    [] topic = "work" ->
         <<<<"j", "o", "b">>,
           <<"w", "o", "r", "k">>,
           <<"b", "o", "s", "s">>,
           <<"o", "f", "f", "i", "c", "e">>,
           <<"c", "a", "r", "e", "e", "r">>,
           <<"p", "r", "o", "m", "o", "t", "i", "o", "n">>,
           <<"m", "e", "e", "t", "i", "n", "g">>,
           <<"s", "a", "l", "a", "r", "y">>,
           <<"i", "n", "t", "e", "r", "v", "i", "e", "w">>>>
    [] topic = "school" ->
         <<<<"s", "c", "h", "o", "o", "l">>,
           <<"c", "l", "a", "s", "s">>,
           <<"h", "o", "m", "e", "w", "o", "r", "k">>,
           <<"s", "t", "u", "d", "y">>,
           <<"e", "x", "a", "m">>,
           <<"t", "e", "a", "c", "h", "e", "r">>,
           <<"p", "r", "o", "f", "e", "s", "s", "o", "r">>,
           <<"a", "s", "s", "i", "g", "n", "m", "e", "n", "t">>,
           <<"c", "o", "l", "l", "e", "g", "e">>>>
    [] topic = "entertainment" ->
         <<<<"m", "o", "v", "i", "e">>,
           <<"g", "a", "m", "e">>,
           <<"m", "u", "s", "i", "c">>,
           <<"s", "h", "o", "w">>,
           <<"b", "o", "o", "k">>,
           <<"c", "o", "n", "c", "e", "r", "t">>,
           <<"s", "e", "r", "i", "e", "s">>,
           <<"t", "v">>,
           <<"a", "n", "i", "m", "e">>,
           <<"s", "t", "r", "e", "a", "m">>>>
    [] topic = "feelings" ->
         <<<<"f", "e", "e", "l">>,
           <<"h", "a", "p", "p", "y">>,
           <<"s", "a", "d">>,
           <<"a", "n", "g", "r", "y">>,
           <<"e", "x", "c", "i", "t", "e", "d">>,
           <<"a", "n", "x", "i", "o", "u", "s">>,
           <<"n", "e", "r", "v", "o", "u", "s">>,
           <<"p", "r", "o", "u", "d">>,
           <<"j", "o", "y">>,
           <<"a", "f", "r", "a", "i", "d">>>>
    [] topic = "health" ->
         <<<<"s", "i", "c", "k">>,
           <<"h", "e", "a", "l", "t", "h">>,
           <<"d", "o", "c", "t", "o", "r">>,
           <<"e", "x", "e", "r", "c", "i", "s", "e">>,
           <<"g", "y", "m">>,
           <<"w", "o", "r", "k", "o", "u", "t">>,
           <<"d", "i", "e", "t">>,
           <<"p", "a", "i", "n">>,
           <<"s", "l", "e", "e", "p">>,
           <<"t", "i", "r", "e", "d">>>>
    [] topic = "technology" ->
         <<<<"p", "h", "o", "n", "e">>,
           <<"c", "o", "m", "p", "u", "t", "e", "r">>,
           <<"l", "a", "p", "t", "o", "p">>,
           <<"a", "p", "p">>,
           <<"s", "o", "f", "t", "w", "a", "r", "e">>,
           <<"t", "e", "c", "h">>,
           <<"d", "e", "v", "i", "c", "e">>,
           <<"i", "n", "t", "e", "r", "n", "e", "t">>,
           <<"w", "i", "f", "i">>,
           <<"o", "n", "l", "i", "n", "e">>>>
    [] topic = "food" ->
         <<<<"f", "o", "o", "d">>,
           <<"e", "a", "t">>,
           <<"r", "e", "s", "t", "a", "u", "r", "a", "n", "t">>,
           <<"m", "e", "a", "l">>,
           <<"c", "o", "o", "k">>,
           <<"d", "i", "n", "n", "e", "r">>,
           <<"l", "u", "n", "c", "h">>,
           <<"b", "r", "e", "a", "k", "f", "a", "s", "t">>,
           <<"r", "e", "c", "i", "p", "e">>,
           <<"s", "n", "a", "c", "k">>>>
    [] topic = "travel" ->
         <<<<"t", "r", "a", "v", "e", "l">>,
           <<"t", "r", "i", "p">>,
           <<"v", "a", "c", "a", "t", "i", "o", "n">>,
           <<"f", "l", "i", "g", "h", "t">>,
           <<"h", "o", "t", "e", "l">>,
           <<"j", "o", "u", "r", "n", "e", "y">>,
           <<"v", "i", "s", "i", "t">>,
           <<"a", "b", "r", "o", "a", "d">>,
           <<"c", "o", "u", "n", "t", "r", "y">>,
           <<"c", "i", "t", "y">>>>

\* new RegExp(`\\b${keyword}\\b`, 'i').test(lowerText): the keyword stands
\* at i with no word character next to it on either side
WordAt(s, i, word) ==
  /\ LitAt(s, i, word)
  /\ i = 1 \/ ~IsWordChar(s[i - 1])
  /\ i + Len(word) > Len(s) \/ ~IsWordChar(s[i + Len(word)])

HasWord(s, word) == \E i \in 1..Len(s) : WordAt(s, i, word)

matchCount(text, topic) ==
  Cardinality({k \in DOMAIN topicKeywords(topic) :
                 HasWord(LowerText(text), topicKeywords(topic)[k])})

\* text.length below which one keyword makes a topic
shortText == 100

IsTopicOf(text, topic) ==
  \/ matchCount(text, topic) >= 2
  \/ matchCount(text, topic) = 1 /\ Len(text) < shortText

RECURSIVE foundTopics(_, _)
foundTopics(text, i) ==
  IF i > Len(topicNames) THEN <<>>
  ELSE (IF IsTopicOf(text, topicNames[i]) THEN <<topicNames[i]>> ELSE <<>>)
         \o foundTopics(text, i + 1)

extractTopics(text) == IF text = <<>> THEN <<>> ELSE foundTopics(text, 1)

\* [...new Set([...messageTopics, ...responseTopics])]
allTopics(message, response) ==
  Dedup(extractTopics(message) \o extractTopics(response))

allTopicsOf ==
  [m \in ChatMessages, r \in Responses |-> allTopics(Chars(m), Chars(r))]

\* $slice of the $push onto recentGlobalTopics
topicsSlice == 25

\* a $push whose $slice keeps the oldest topics
PushTopicsKeepsOldest(window, topics) == SliceFirst(window \o topics, topicsSlice)
\* $push: {recentGlobalTopics: {$each: allTopics, $slice: -25}}
PushTopics(window, topics) == SliceLast(window \o topics, topicsSlice)

\* the alternatives of /^(start|go|begin|i am ready|i'm ready|ready|let's
\* go|continue|proceed)/i
readyWords ==
  <<<<"s", "t", "a", "r", "t">>,
    <<"g", "o">>,
    <<"b", "e", "g", "i", "n">>,
    <<"i", " ", "a", "m", " ", "r", "e", "a", "d", "y">>,
    <<"i", "'", "m", " ", "r", "e", "a", "d", "y">>,
    <<"r", "e", "a", "d", "y">>,
    <<"l", "e", "t", "'", "s", " ", "g", "o">>,
    <<"c", "o", "n", "t", "i", "n", "u", "e">>,
    <<"p", "r", "o", "c", "e", "e", "d">>>>

\* the test of the stalling fix on the user's message
IsReady(message) ==
  \/ \E k \in DOMAIN readyWords : LitAt(LowerText(trim(message)), 1, readyWords[k])
  \/ Includes(LowerText(message), <<"f", "u", "l", "l", "y", " ", "r", "e", "a", "d", "y">>)

isReadyOf == [m \in ChatMessages |-> IsReady(Chars(m))]

ErrorBody == "Failed to process chat"

\* res.status(500).json(...) of the catch block of chatController
RespondError(request) ==
  [request EXCEPT !.at = "done", !.sent = "error", !.body = ErrorBody]

\* the steps after updateUserContext returned: the sampled, unawaited call
\* of updateGlobalContext, which runs up to its store call, and res.json
Respond(request, sampled) ==
  [request EXCEPT !.at = "done", !.sent = "success", !.body = request.reply,
                  !.aggregator = IF sampled THEN "pending" ELSE "none",
                  !.topics = IF sampled
                               THEN allTopicsOf[request.message, request.reply]
                               ELSE <<>>]

\* a catch block of updateUserContext that logs and returns
UpdateSwallows(request) == [request EXCEPT !.update = "returned"]
\* the catch block of updateUserContext: it logs and throws the error again
UpdateCatch(request) == [request EXCEPT !.update = "raised"]

UpdateReturns(request) == [request EXCEPT !.write = "ok", !.update = "returned"]

\* chatController from the end of its await of updateUserContext on
AfterUpdate(request, sampled) ==
  IF request.update = "raised" THEN RespondError(request)
  ELSE Respond(request, sampled)

\* a call of updateUserContext that is not awaited: the request goes on
\* while the trim write is still to come
UpdateNotAwaited(request, trimDue, sampled) ==
  AfterUpdate(UpdateReturns(request), sampled)

\* await updateUserContext(...) once findOneAndUpdate has resolved: the
\* request waits for the trim write when one is due, and goes on when the
\* call has returned
AwaitUpdate(request, trimDue, sampled) ==
  IF trimDue THEN [request EXCEPT !.at = "trimming"]
  ELSE AfterUpdate(UpdateReturns(request), sampled)

\* a catch block of updateGlobalContext that lets the error reach the
\* request
AggregatorRethrows(request) ==
  [request EXCEPT !.aggregator = "failed", !.sent = "error", !.body = ErrorBody]
\* the catch block of updateGlobalContext: it logs
AggregatorCatch(request) == [request EXCEPT !.aggregator = "failed"]

SeedTopics(n) == [i \in 1..n |-> topicNames[((i - 1) % Len(topicNames)) + 1]]

ChatSeedLens == {0, MAX_HISTORY}
\* milliseconds between the requests' store operations
ChatElapsed == {1}
TopicSeedLens == {0, topicsSlice - 2, topicsSlice}

ChatInit ==
  \E n \in ChatSeedLens, k \in TopicSeedLens :
    /\ userExists = (n > 0)
    /\ username = IF n > 0 THEN "ann" ELSE ""
    /\ mood = IF n > 0 THEN "neutral" ELSE ""
    /\ preferences = <<>>
    /\ contextTokens = <<>>
    /\ lastActive = MsPerSecond * n
    /\ conversationHistory = SeedHistory(n)
    /\ now = MsPerSecond * n
    /\ appended = SeedHistory(n)
    /\ pc = [p \in Procs |-> "idle"]
    /\ updatedUser = [p \in Procs |-> NoUser]
    /\ calls = 0
    /\ globalExists = (k > 0)
    /\ botPersonality = IF k > 0 THEN "sweet" ELSE ""
    /\ recentGlobalTopics = SeedTopics(k)
    /\ lastUpdate = 0
    /\ query = ""
    /\ rpc = "none"
    /\ result = NoResult
    /\ chat = [p \in Procs |-> NoRequest]
    /\ pushedTopics = SeedTopics(k)
    /\ NoMood
    /\ NoDelivery

\* the request arrives with a userName and calls retrieveUserContext
ChatArrives(p, message, name) ==
  /\ chat[p].at = "idle"
  /\ chat' = [chat EXCEPT ![p] = [NoRequest EXCEPT !.at = "retrieving",
                                                   !.message = message,
                                                   !.userName = name]]
  /\ UNCHANGED <<storeVars, globalVars, retrievalVars, pushedTopics, moodVars, discord>>

\* retrieveUserContext returns (it never throws) and its context goes into
\* the prompt; the `finalPrompt +=` of the stalling fix throws on the const
\* finalPrompt, and for any other message axios.post is called
ChatRetrieved(p) ==
  /\ chat[p].at = "retrieving"
  /\ chat' = [chat EXCEPT ![p] =
                IF isReadyOf[@.message]
                  THEN RespondError([@ EXCEPT !.context = "retrieved"])
                  ELSE [@ EXCEPT !.at = "generating",
                                 !.context = "retrieved",
                                 !.generator = "called"]]
  /\ UNCHANGED <<storeVars, globalVars, retrievalVars, pushedTopics, moodVars, discord>>

\* the generator answers; no message that reaches this point passes the
\* test of the second stalling fix
ChatGenerated(p, reply) ==
  /\ chat[p].at = "generating"
  /\ chat' = [chat EXCEPT ![p] = [@ EXCEPT !.at = "recording",
                                           !.generator = "answered",
                                           !.reply = reply]]
  /\ UNCHANGED <<storeVars, globalVars, retrievalVars, pushedTopics, moodVars, discord>>

\* axios.post rejects
ChatGenerateFails(p) ==
  /\ chat[p].at = "generating"
  /\ chat' = [chat EXCEPT ![p] = RespondError([@ EXCEPT !.generator = "failed"])]
  /\ UNCHANGED <<storeVars, globalVars, retrievalVars, pushedTopics, moodVars, discord>>

\* findOneAndUpdate of updateUserContext succeeds; with no trim to do the
\* call returns and the request is answered
ChatUpsert(p, dt, sampled) ==
  /\ chat[p].at = "recording"
  /\ UpsertUser(p, chat[p].userName, chat[p].message, chat[p].reply, dt)
  /\ chat' = [chat EXCEPT ![p] = AwaitUpdate(@, pc'[p] = "trim", sampled)]
  /\ UNCHANGED <<globalVars, retrievalVars, pushedTopics, moodVars, discord>>

\* findOneAndUpdate of updateUserContext rejects
ChatUpsertFails(p) ==
  /\ chat[p].at = "recording"
  /\ chat' = [chat EXCEPT ![p] =
                AfterUpdate(UpdateCatch([@ EXCEPT !.write = "failed"]), FALSE)]
  /\ UNCHANGED <<storeVars, globalVars, retrievalVars, pushedTopics, moodVars, discord>>

\* the trim write of updateUserContext succeeds
ChatTrim(p, sampled) ==
  /\ chat[p].at = "trimming"
  /\ TrimUser(p)
  /\ chat' = [chat EXCEPT ![p] = AfterUpdate(UpdateReturns(@), sampled)]
  /\ UNCHANGED <<globalVars, retrievalVars, pushedTopics, moodVars, discord>>

\* the trim write of updateUserContext rejects
ChatTrimFails(p) ==
  /\ chat[p].at = "trimming"
  /\ pc[p] = "trim"
  /\ pc' = [pc EXCEPT ![p] = "idle"]
  /\ chat' = [chat EXCEPT ![p] =
                AfterUpdate(UpdateCatch([@ EXCEPT !.write = "failed"]), FALSE)]
  /\ UNCHANGED <<docVars, now, appended, updatedUser, calls, globalVars,
                 retrievalVars, pushedTopics, moodVars, discord>>

\* findOneAndUpdate of updateGlobalContext succeeds
AggregatorWrite(p) ==
  /\ chat[p].aggregator = "pending"
  /\ globalExists' = TRUE
  /\ lastUpdate' = now
  /\ recentGlobalTopics' = PushTopics(recentGlobalTopics, chat[p].topics)
  /\ pushedTopics' = pushedTopics \o chat[p].topics
  /\ chat' = [chat EXCEPT ![p] = [@ EXCEPT !.aggregator = "written"]]
  /\ UNCHANGED <<storeVars, botPersonality, retrievalVars, moodVars, discord>>

\* findOneAndUpdate of updateGlobalContext rejects
AggregatorFails(p) ==
  /\ chat[p].aggregator = "pending"
  /\ chat' = [chat EXCEPT ![p] = AggregatorCatch(@)]
  /\ UNCHANGED <<storeVars, globalVars, retrievalVars, pushedTopics, moodVars, discord>>

ChatNext ==
  \/ \E p \in Procs, message \in ChatMessages, name \in Usernames :
       ChatArrives(p, message, name)
  \/ \E p \in Procs : ChatRetrieved(p)
  \/ \E p \in Procs, reply \in Responses : ChatGenerated(p, reply)
  \/ \E p \in Procs : ChatGenerateFails(p)
  \/ \E p \in Procs, dt \in ChatElapsed, sampled \in BOOLEAN :
       ChatUpsert(p, dt, sampled)
  \/ \E p \in Procs : ChatUpsertFails(p)
  \/ \E p \in Procs, sampled \in BOOLEAN : ChatTrim(p, sampled)
  \/ \E p \in Procs : ChatTrimFails(p)
  \/ \E p \in Procs : AggregatorWrite(p)
  \/ \E p \in Procs : AggregatorFails(p)

SpecChat == ChatInit /\ [][ChatNext]_vars

----------------------------------------------------------------------------
(* detectMood, called time after time *)

\* calls of detectMood in one behaviour
MaxMoodCalls == 3

MoodMessages ==
  {"", "hello", "I love Paris", "happy love", "sad and happy",
   "happy glad yay {heart}{two hearts}"}

MoodInit ==
  /\ userExists = FALSE
  /\ username = ""
  /\ mood = ""
  /\ preferences = <<>>
  /\ contextTokens = <<>>
  /\ lastActive = 0
  /\ conversationHistory = <<>>
  /\ now = 0
  /\ appended = <<>>
  /\ pc = [p \in Procs |-> "idle"]
  /\ updatedUser = [p \in Procs |-> NoUser]
  /\ calls = 0
  /\ globalExists = FALSE
  /\ botPersonality = ""
  /\ recentGlobalTopics = <<>>
  /\ lastUpdate = 0
  /\ query = ""
  /\ rpc = "none"
  /\ result = NoResult
  /\ NoChat
  /\ NoMood
  /\ NoDelivery

\* one call detectMood(message): the scores it starts from, the scoring
\* loop, and the label it returns
DetectMood(message) ==
  /\ Len(detected) < MaxMoodCalls
  /\ \E scores \in {Scored(ScoresAtCall(moodScores), Chars(message))} :
       /\ moodScores' = scores
       /\ detected' = Append(detected,
                             [message |-> message,
                              mood |-> HighestFrom(scores, 1, 0, "neutral")])
  /\ UNCHANGED <<storeVars, globalVars, retrievalVars, chatVars, discord>>

MoodNext == \E message \in MoodMessages : DetectMood(message)

SpecMood == MoodInit /\ [][MoodNext]_vars

----------------------------------------------------------------------------
(* The Discord bot (DiscordBot/Discord_Bot_Integration.js): the messageCreate
   handler from the answer of the server on, and sendMessageSafely.  A text
   is modelled by its length; the prefix and the note are the strings of the
   source. *)

chunkSize == 1990
smallerChunkSize == 1000
\* Discord's limit on the length of one message
discordLimit == 2000

apology == "Sorry, I am having trouble responding right now. Please try again later."

\* Math.ceil(length / size)
ceil(length, size) == (length + size - 1) \div size

\* text.substring(from, from + size).length
substringLength(length, from, size) ==
  IF from >= length THEN 0
  ELSE IF length - from < size THEN length - from ELSE size

\* totalChunks > 1 ? `[Part ${chunkIndex}/${totalChunks}] ` : ''
prefix(chunkIndex, totalChunks) ==
  IF totalChunks > 1
    THEN "[Part " \o ToString(chunkIndex) \o "/" \o ToString(totalChunks) \o "] "
    ELSE ""

\* the note the first message ends with when more messages follow
continuationNote(remaining, totalChunks) ==
  IF remaining > 0
    THEN IF totalChunks > 2
           THEN " (continued in " \o ToString(totalChunks - 1) \o " more messages)"
           ELSE " (continued in next message)"
    ELSE ""

\* the lengths the bot response may have
ResponseLens ==
  {0, 1, smallerChunkSize, chunkSize - 1, chunkSize, chunkSize + 1, discordLimit,
   2 * chunkSize, 2 * chunkSize + 1, 3 * chunkSize, 3 * chunkSize + 1,
   10 * chunkSize, 10 * chunkSize + 1}

\* the loop of sendMessageSafely at offset from: the next
\* message.channel.send(prefix + chunk), or the end of the function
NextChunk(delivery, from) ==
  IF from < delivery.text
    THEN [delivery EXCEPT
            !.at = "chunk", !.i = from, !.chunkIndex = @ + 1,
            !.passed =
              Append(@, Len(prefix(delivery.chunkIndex + 1,
                                   ceil(delivery.text, chunkSize)))
                          + substringLength(delivery.text, from, chunkSize))]
    ELSE [delivery EXCEPT !.at = "done"]

\* the loop of the catch block of sendMessageSafely at offset from: the next
\* message.channel.send(chunk), or the end of the function
NextSmallerChunk(delivery, from) ==
  IF from < delivery.text
    THEN [delivery EXCEPT
            !.at = "smaller", !.i = from,
            !.passed = Append(@, substringLength(delivery.text, from, smallerChunkSize))]
    ELSE [delivery EXCEPT !.at = "done"]

\* sendMessageSafely(text) up to its first message.channel.send
sendMessageSafely(delivery, length) ==
  IF length <= chunkSize
    THEN [delivery EXCEPT !.at = "whole", !.text = length, !.passed = Append(@, length)]
    ELSE NextChunk([delivery EXCEPT !.text = length, !.chunkIndex = 0], 0)

\* botResponse.substring(chunkSize).length
remainingText(length) == IF length > chunkSize THEN length - chunkSize ELSE 0

DiscordInit ==
  /\ userExists = FALSE
  /\ username = ""
  /\ mood = ""
  /\ preferences = <<>>
  /\ contextTokens = <<>>
  /\ lastActive = 0
  /\ conversationHistory = <<>>
  /\ now = 0
  /\ appended = <<>>
  /\ pc = [p \in Procs |-> "idle"]
  /\ updatedUser = [p \in Procs |-> NoUser]
  /\ calls = 0
  /\ globalExists = FALSE
  /\ botPersonality = ""
  /\ recentGlobalTopics = <<>>
  /\ lastUpdate = 0
  /\ query = ""
  /\ rpc = "none"
  /\ result = NoResult
  /\ NoChat
  /\ NoMood
  /\ NoDelivery

\* the server answers with a bot response of the given length: the first
\* chunk and the note are passed to message.reply
ServerAnswers(length) ==
  /\ discord.at = "waiting"
  /\ discord' =
       [discord EXCEPT
          !.at = "reply", !.botResponse = length,
          !.passed =
            Append(@, substringLength(length, 0, chunkSize)
                        + Len(continuationNote(remainingText(length),
                                               ceil(length, chunkSize))))]
  /\ UNCHANGED <<storeVars, globalVars, retrievalVars, chatVars, moodVars>>

\* axios.post rejects: the apology is passed to message.reply
ServerFails ==
  /\ discord.at = "waiting"
  /\ discord' = [discord EXCEPT !.at = "done", !.passed = Append(@, Len(apology))]
  /\ UNCHANGED <<storeVars, globalVars, retrievalVars, chatVars, moodVars>>

\* message.reply resolves, and the rest of the response, if any, goes to
\* sendMessageSafely; or it rejects, and the whole response does
ReplySettles(resolved) ==
  /\ discord.at = "reply"
  /\ discord' =
       IF resolved
         THEN IF remainingText(discord.botResponse) > 0
                THEN sendMessageSafely(discord, remainingText(discord.botResponse))
                ELSE [discord EXCEPT !.at = "done"]
         ELSE sendMessageSafely(discord, discord.botResponse)
  /\ UNCHANGED <<storeVars, globalVars, retrievalVars, chatVars, moodVars>>

\* a message.channel.send of the try block of sendMessageSafely resolves,
\* and the function returns or sends its next chunk; or it rejects, and the
\* catch block starts over with the smaller chunks
SendSettles(resolved) ==
  /\ discord.at \in {"whole", "chunk"}
  /\ discord' =
       IF resolved
         THEN IF discord.at = "whole" THEN [discord EXCEPT !.at = "done"]
              ELSE NextChunk(discord, discord.i + chunkSize)
         ELSE NextSmallerChunk(discord, 0)
  /\ UNCHANGED <<storeVars, globalVars, retrievalVars, chatVars, moodVars>>

\* a message.channel.send of the catch block resolves, and the next smaller
\* chunk is sent; or it rejects, and the function gives up
SmallerSendSettles(resolved) ==
  /\ discord.at = "smaller"
  /\ discord' =
       IF resolved THEN NextSmallerChunk(discord, discord.i + smallerChunkSize)
       ELSE [discord EXCEPT !.at = "done"]
  /\ UNCHANGED <<storeVars, globalVars, retrievalVars, chatVars, moodVars>>

DiscordNext ==
  \/ \E length \in ResponseLens : ServerAnswers(length)
  \/ ServerFails
  \/ \E resolved \in BOOLEAN : ReplySettles(resolved)
  \/ \E resolved \in BOOLEAN : SendSettles(resolved)
  \/ \E resolved \in BOOLEAN : SmallerSendSettles(resolved)

SpecDiscord == DiscordInit /\ [][DiscordNext]_vars

----------------------------------------------------------------------------
(* Properties of updateUserContext, checked under Spec *)

\* no call is between its findOneAndUpdate and its return
Quiescent == \A p \in Procs : pc[p] = "idle"

\* the step is the findOneAndUpdate of a call; the turn it pushed
IsUpsertStep == calls' = calls + 1
PushedTurn == appended'[Len(appended')]

NoDuplicates(arr) == \A i, j \in DOMAIN arr : arr[i] = arr[j] => i = j

\* C2: once all concurrent updateUserContext calls have completed, every
\* turn ever appended is in the stored history, unless it is a middle turn
\* of the full append sequence (neither among its first 5 nor among its
\* last 45): no turn is lost to another call's follow-up trim write.
C2_NoTurnLostToTrim ==
  Quiescent =>
    \A i \in DOMAIN appended :
      (i <= KEEP_FIRST \/ i > Len(appended) - KEEP_LAST)
        => appended[i] \in Range(conversationHistory)

C4_TrimKeepsFirst5Last45 ==
  [][\A p \in Procs :
       (/\ pc[p] = "trim"
        /\ pc'[p] = "idle"
        /\ updatedUser[p].conversationHistory = conversationHistory)
       => /\ Len(conversationHistory) > MAX_HISTORY
          /\ Len(conversationHistory') = MAX_HISTORY
          /\ \A i \in 1..KEEP_FIRST :
               conversationHistory'[i] = conversationHistory[i]
          /\ \A j \in 1..KEEP_LAST :
               conversationHistory'[KEEP_FIRST + j] =
                 conversationHistory[Len(conversationHistory) - KEEP_LAST + j]]_vars

\* a 51-turn history has been trimmed to 50 by the only call past 50
C4_Witness ==
  /\ Quiescent
  /\ Len(appended) = MAX_HISTORY + 1
  /\ Len(conversationHistory) = MAX_HISTORY
  /\ appended[KEEP_FIRST + 1] \notin Range(conversationHistory)

C10_ContextTokensOnlyGrow ==
  [][/\ Range(contextTokens) \subseteq Range(contextTokens')
     /\ NoDuplicates(contextTokens')
     /\ IF IsUpsertStep
          THEN Range(contextTokens') =
                 Range(contextTokens) \cup Range(entitiesOf[PushedTurn.message])
          ELSE contextTokens' = contextTokens]_vars

\* the history has been trimmed and the tokens of earlier turns are kept
C10_Witness ==
  /\ Quiescent
  /\ Len(appended) > MAX_HISTORY
  /\ Len(conversationHistory) = MAX_HISTORY
  /\ Cardinality(Range(contextTokens)) >= 2

----------------------------------------------------------------------------
(* Properties of retrieveUserContext, checked under SpecRetrieve *)

Returned == rpc = "returned"

\* C1: every turn among the last 5 (RECENT_N) of the stored history is in
\* the relevantHistory retrieveUserContext returns, whatever the scores and
\* however many older turns relevance selects.
C1_RecentTurnsAreReturned ==
  Returned =>
    \A turn \in Range(SliceLast(conversationHistory, RECENT_N)) :
      turn \in Range(result.relevantHistory)

\* C5: the relevantHistory retrieveUserContext returns has at most 10
\* (MAX_TOTAL) turns.
C5_AtMostMaxTotal == Returned => Len(result.relevantHistory) <= MAX_TOTAL

\* the recent and the relevant turns together were more than 10, and 10
\* were returned
C5_Witness ==
  /\ Returned
  /\ Len(result.recentHistory) > MAX_TOTAL
  /\ Len(result.relevantHistory) = MAX_TOTAL

\* C6: the relevantHistory retrieveUserContext returns is sorted
\* non-decreasing by timestamp.
C6_SortedByTimestamp ==
  Returned =>
    \A i, j \in DOMAIN result.relevantHistory :
      i < j => result.relevantHistory[i].timestamp <= result.relevantHistory[j].timestamp

\* relevant turns older than the recent ones were pushed after them, and
\* are returned before them
C6_Witness ==
  /\ Returned
  /\ \E i \in DOMAIN result.recentHistory :
       /\ i > 1
       /\ result.recentHistory[i].timestamp < result.recentHistory[i - 1].timestamp
       /\ result.recentHistory[i] \in Range(result.relevantHistory)
       /\ result.recentHistory[i - 1] \in Range(result.relevantHistory)

\* C7: no two turns of the relevantHistory retrieveUserContext returns have
\* the same message and the same timestamp, also when the stored history
\* holds two such turns.
C7_NoTwoTurnsOfOneIdentity ==
  Returned =>
    \A i, j \in DOMAIN result.relevantHistory :
      (/\ result.relevantHistory[i].message = result.relevantHistory[j].message
       /\ result.relevantHistory[i].timestamp = result.relevantHistory[j].timestamp)
        => i = j

\* C8: the recentHistory retrieveUserContext returns for a stored user is
\* exactly the last 5 turns of the stored history, in stored order.
C8_RecentHistoryIsLastFive ==
  (Returned /\ userExists) =>
    result.recentHistory = SliceLast(conversationHistory, RECENT_N)

\* C11: retrieveUserContext never raises to its caller: a call in which a
\* read or a later step throws returns the default context, with mood
\* "neutral", empty relevantHistory and recentHistory, no previousBotMessage
\* and a default personality.
C11_RetrieveNeverRaises ==
  /\ rpc # "raised"
  /\ rpc = "recovered" =>
       /\ result.userInfo.mood = "neutral"
       /\ result.relevantHistory = <<>>
       /\ result.recentHistory = <<>>
       /\ result.previousBotMessage = Null
       /\ result.botPersonality = "friendly and helpful"

\* the retrieval of a user with stored turns failed and returned
C11_Witness ==
  /\ rpc = "recovered"
  /\ userExists
  /\ Len(conversationHistory) > RECENT_N

\* C13: retrieveUserContext for a userId with no stored profile returns
\* mood "neutral", empty histories and a botPersonality: that of the
\* global profile when one is stored, the fixed default string otherwise.
C13_NewUserGetsGlobalPersonality ==
  (Returned /\ ~userExists) =>
    /\ result.userInfo.mood = "neutral"
    /\ result.relevantHistory = <<>>
    /\ result.recentHistory = <<>>
    /\ "botPersonality" \in DOMAIN result
    /\ result.botPersonality =
         IF globalExists /\ botPersonality # "" THEN botPersonality
         ELSE DefaultPersonality

\* C14: updateUserContext has upsert semantics: its findOneAndUpdate leaves
\* a stored profile in every case; for a user with no profile the stored
\* history is exactly the one new turn, for a stored profile it is the
\* history before with exactly the one new turn at its end; and the caller
\* gets the stored document, never a missing one.
C14_UpsertSemantics ==
  [][IsUpsertStep =>
       /\ userExists'
       /\ conversationHistory' = Append(conversationHistory, PushedTurn)
       /\ ~userExists => conversationHistory' = <<PushedTurn>>
       /\ \E p \in Procs : updatedUser'[p] # updatedUser[p]
       /\ \A p \in Procs :
            updatedUser'[p] # updatedUser[p]
              => updatedUser'[p] = StoredUser' /\ updatedUser'[p] # NoUser]_vars

\* a profile was created by one call and appended to by the next
C14_Witness ==
  /\ calls = 2
  /\ userExists
  /\ Len(appended) = 2
  /\ conversationHistory = appended
  /\ \E p \in Procs : updatedUser[p] = StoredUser

----------------------------------------------------------------------------
(* Properties of detectMood, checked under SpecMood *)

\* C17: detectMood is a function of the message text alone: two calls with
\* the same text return the same label whatever calls were made before
\* them, every label is one of the seven of the enumeration, and the empty
\* message is labelled "neutral".
C17_DetectMoodIsPure ==
  \A i \in DOMAIN detected :
    /\ detected[i].mood \in Range(moodNames)
    /\ detected[i].message = "" => detected[i].mood = "neutral"
    /\ \A j \in DOMAIN detected :
         detected[i].message = detected[j].message
           => detected[i].mood = detected[j].mood

\* a text was labelled again, not neutral, after a call on another text that
\* was labelled differently
C17_Witness ==
  /\ Len(detected) >= 3
  /\ detected[1].message = detected[3].message
  /\ detected[1].mood \notin {"neutral", detected[2].mood}
  /\ detected[2].mood # "neutral"

\* the categories in the order of their declaration
MoodIndex(category) == CHOOSE i \in DOMAIN moodNames : moodNames[i] = category

\* the score every category holds after the scoring loop of one call
finalScores ==
  [message \in MoodMessages |->
     [category \in Range(moodNames) |-> moodScore(Chars(message), category)]]

\* the categories of a message with a keyword or emoji hit
categoriesHit ==
  [message \in MoodMessages |->
     {category \in Range(moodNames) :
        \/ HitCount(LowerText(Chars(message)), moodKeywords(category)) > 0
        \/ HitCount(Chars(message), moodEmojis(category)) > 0}]

\* C18: detectMood returns the category with the greatest accumulated score
\* (the double the additions of 0.2 a keyword and 0.3 an emoji give, neutral
\* holding 0.2), the earliest declared of those that hold it; so "neutral"
\* is returned only when no other category has a hit.
C18_GreatestScoreEarliestWins ==
  \A k \in DOMAIN detected :
    LET score == finalScores[detected[k].message]
        winner == MoodIndex(detected[k].mood)
    IN /\ \A i \in DOMAIN moodNames :
            /\ score[moodNames[i]] <= score[detected[k].mood]
            /\ i < winner => score[moodNames[i]] < score[detected[k].mood]
       /\ detected[k].mood = "neutral"
            => categoriesHit[detected[k].message] \subseteq {"neutral"}

\* two categories held the greatest score and the earlier one was returned
C18_Witness ==
  \E k \in DOMAIN detected :
    \E i, j \in DOMAIN moodNames :
      /\ i < j
      /\ moodNames[j] # "neutral"
      /\ detected[k].mood = moodNames[i]
      /\ finalScores[detected[k].message][moodNames[i]]
           = finalScores[detected[k].message][moodNames[j]]

----------------------------------------------------------------------------
(* Properties of chatController and updateGlobalContext, checked under
   SpecChat *)

\* C12: when a store write of updateUserContext fails, updateUserContext
\* raises the error to chatController, and the request is answered with an
\* error response, never with the generated reply as a success.
C12_StoreFailureEndsInError ==
  \A p \in Procs :
    chat[p].write = "failed"
      => /\ chat[p].update = "raised"
         /\ chat[p].sent = "error"
         /\ chat[p].body # chat[p].reply

\* a reply was generated, the write of its turn failed, and the request
\* was answered with the error
C12_Witness ==
  \E p \in Procs :
    /\ chat[p].write = "failed"
    /\ chat[p].reply # ""
    /\ chat[p].sent = "error"

\* C15: recentGlobalTopics never has more than 25 entries and is the last
\* 25 (or fewer) of all topics ever pushed, in the order of their arrival;
\* a push of 3 topics onto a window of 25 leaves 25 entries: the window
\* without its 3 oldest, followed by the 3 new ones.
C15_TopicsAreLast25 ==
  /\ [](/\ Len(recentGlobalTopics) <= topicsSlice
        /\ recentGlobalTopics = SliceLast(pushedTopics, topicsSlice))
  /\ [][(Len(recentGlobalTopics) = topicsSlice
           /\ Len(pushedTopics') = Len(pushedTopics) + 3)
          => /\ Len(recentGlobalTopics') = topicsSlice
             /\ recentGlobalTopics'
                  = SubSeq(recentGlobalTopics, 4, topicsSlice)
                      \o SubSeq(pushedTopics', Len(pushedTopics) + 1,
                                Len(pushedTopics'))]_vars

\* 3 topics were pushed onto a window of 25
C15_Witness ==
  /\ Len(pushedTopics) = topicsSlice + 3
  /\ Len(recentGlobalTopics) = topicsSlice
  /\ recentGlobalTopics[1] # pushedTopics[1]

\* the turn of request p is in the stored history
TurnRecorded(p) ==
  \E i \in DOMAIN conversationHistory :
    /\ conversationHistory[i].message = chat[p].message
    /\ conversationHistory[i].response = chat[p].reply

\* C16: the request is answered before the write of updateGlobalContext
\* ends, and a failure of that write changes neither the response sent nor
\* the stored profile of the user: the request stays answered with the
\* generated reply.
C16_AggregatorFailureIsSwallowed ==
  [][\A p \in Procs :
       /\ chat'[p].aggregator = "pending" => chat'[p].sent = "success"
       /\ (chat[p].aggregator = "pending" /\ chat'[p].aggregator = "failed")
            => /\ chat'[p].sent = "success"
               /\ chat'[p].body = chat[p].reply
               /\ chat'[p].update = "returned"
               /\ docVars' = docVars]_vars

\* the aggregator write of an answered request failed, and the turn of the
\* request is stored
C16_Witness ==
  \E p \in Procs :
    /\ chat[p].aggregator = "failed"
    /\ chat[p].sent = "success"
    /\ chat[p].topics # <<>>
    /\ TurnRecorded(p)

----------------------------------------------------------------------------
(* Properties of retrieveUserContext on histories with a turn without
   timestamp, checked under SpecLegacy *)

\* C19: in the chronological sort of the merger a turn without timestamp
\* sorts as "now": in relevantHistory it stands after every turn that has a
\* timestamp.
C19_MissingTimestampSortsLast ==
  (Returned /\ userExists) =>
     \A i, j \in DOMAIN result.relevantHistory :
       (/\ result.relevantHistory[i].timestamp = NoTimestamp
        /\ result.relevantHistory[j].timestamp # NoTimestamp) => j < i

----------------------------------------------------------------------------
(* Properties of the ranking of retrieveUserContext, checked under
   SpecRank *)

\* the scores the scorer gives the turns of the stored history
ScoresOfQuery ==
  similarityScores(query, conversationHistory,
                   Documents(query, conversationHistory))

\* the query is the message of turn 3, which is outside the last 5 turns,
\* and the turns have their timestamps, in ascending order
QueryIsOldTurn ==
  /\ Returned
  /\ Len(conversationHistory) >= 3 + RECENT_N
  /\ query = conversationHistory[3].message
  /\ \A i \in DOMAIN conversationHistory :
       /\ conversationHistory[i].timestamp # NoTimestamp
       /\ i > 1 => conversationHistory[i - 1].timestamp
                      <= conversationHistory[i].timestamp

\* no turn holds a term of the query more often than turn 3 does
NoTurnRepeatsTerms ==
  \A i \in DOMAIN conversationHistory :
    \A k \in DOMAIN queryDocument[query] :
      tf(queryDocument[query][k],
         turnDocument[conversationHistory[i].message, conversationHistory[i].response])
        <= tf(queryDocument[query][k],
              turnDocument[conversationHistory[3].message, conversationHistory[3].response])

TurnReturned(i) ==
  \E k \in DOMAIN result.relevantHistory :
    result.relevantHistory[k] = conversationHistory[i]

\* another turn that the identity of the merger takes for turn 3: same
\* message, same timestamp to the second
OldTurnHasTwin ==
  \E i \in DOMAIN conversationHistory :
    /\ i # 3
    /\ convId(conversationHistory[i], now) = convId(conversationHistory[3], now)

\* C20 as stated: for a query that is the message of turn 3, outside the
\* last 5 turns, no turn has a higher score than turn 3 and relevantHistory
\* contains turn 3, whatever the other turns contain.
C20_OldTurnRanksHighest ==
  QueryIsOldTurn =>
    \A scores \in {ScoresOfQuery} :
      /\ \A i \in DOMAIN scores : scores[i].score <= scores[3].score
      /\ TurnReturned(3)

\* C20, amended: for such a query, when no turn holds a term of the query
\* more often than turn 3 does, no turn has a higher score than turn 3, and
\* relevantHistory contains turn 3 unless another turn of the history has
\* the same message and the same timestamp to the second.
C20_OldTurnRanksHighestUnlessTermsRepeat ==
  (QueryIsOldTurn /\ NoTurnRepeatsTerms) =>
    \A scores \in {ScoresOfQuery} :
      /\ \A i \in DOMAIN scores : scores[i].score <= scores[3].score
      /\ TurnReturned(3) \/ OldTurnHasTwin

\* turn 3 of a history of 9 turns or more was returned for its message,
\* ahead of turns that score as high and of turns that score lower
C20_Witness ==
  /\ QueryIsOldTurn
  /\ NoTurnRepeatsTerms
  /\ Len(conversationHistory) > 3 + RECENT_N
  /\ TurnReturned(3)
  /\ ~OldTurnHasTwin
  /\ \E i \in DOMAIN conversationHistory :
       i # 3 /\ conversationHistory[i].message = conversationHistory[3].message
  /\ \E i \in DOMAIN conversationHistory :
       conversationHistory[i].message = "hello" /\ ~TurnReturned(i)


----------------------------------------------------------------------------
(* Properties of what updateUserContext returns and of the founding turns,
   checked under Spec *)

\* the step that completes a call of p: its upsert when no trim is due, or
\* its trim write
CompletesCall(p) ==
  /\ pc'[p] = "idle"
  /\ pc[p] = "trim" \/ updatedUser'[p] # updatedUser[p]

\* C23: the profile updateUserContext returns equals the profile that is
\* stored when the call completes, and the conversationHistory it returns
\* has at most MAX_HISTORY turns, also when the call wrote a trim.
C23_ReturnedIsPersisted ==
  [][\A p \in Procs :
       CompletesCall(p)
         => /\ updatedUser'[p] = StoredUser'
            /\ Len(updatedUser'[p].conversationHistory) <= MAX_HISTORY]_vars

\* C25: once KEEP_FIRST turns have been recorded, the first KEEP_FIRST
\* entries of the stored conversationHistory are the first KEEP_FIRST turns
\* recorded, in their order, whatever calls and trims have interleaved.
C25_FoundingTurnsArePermanent ==
  Len(appended) >= KEEP_FIRST
    => /\ Len(conversationHistory) >= KEEP_FIRST
       /\ SliceFirst(conversationHistory, KEEP_FIRST)
            = SliceFirst(appended, KEEP_FIRST)

\* two calls have each written their trim, and the founding turns are the
\* head of a history whose later turns were cut
C25_Witness ==
  /\ Quiescent
  /\ Len(appended) = MAX_HISTORY + 2
  /\ Len(conversationHistory) = MAX_HISTORY
  /\ SliceFirst(conversationHistory, KEEP_FIRST) = SliceFirst(appended, KEEP_FIRST)
  /\ conversationHistory[KEEP_FIRST + 1] # appended[KEEP_FIRST + 1]


\* C26: every category of the mapping extractPreferences returns has at
\* least one phrase, so an upsert replaces the stored preferences only by a
\* mapping in which a phrase was captured.
C26_EveryCategoryHasAPhrase ==
  [][IsUpsertStep
       => /\ \A c \in DOMAIN preferencesOf[PushedTurn.message, PushedTurn.response] :
               preferencesOf[PushedTurn.message, PushedTurn.response][c] # <<>>
          /\ preferences' # preferences
               => \E c \in DOMAIN preferences' : preferences'[c] # <<>>]_vars


----------------------------------------------------------------------------
(* The relevance scorer on histories with a turn that lacks a text, checked
   under SpecLegacy *)

\* the terms of turn i's own text, a missing message or response being the
\* empty text
OwnTerms(i) ==
  turnDocument[OrEmpty(conversationHistory[i].message),
               OrEmpty(conversationHistory[i].response)]

\* C27: the scorer gives every turn of the history one score, that of the
\* corpus document built from the turn's own text: the entry of turn i
\* (index i - 1) holds turn i, its score is positive exactly when the turn's
\* own text has a term of the query, turns of the same text have the same
\* score, and a turn without message and response is scored as the empty
\* text, 0, without moving the score of a neighbour.
C27_EachTurnHasItsOwnScore ==
  (Returned /\ conversationHistory # <<>>)
    => /\ DOMAIN ScoresOfQuery = DOMAIN conversationHistory
       /\ \A i \in DOMAIN conversationHistory :
            /\ ScoresOfQuery[i].index = i - 1
            /\ ScoresOfQuery[i].conversation = conversationHistory[i]
            /\ ScoresOfQuery[i].score > 0
                 <=> Range(OwnTerms(i)) \cap Range(queryDocument[query]) # {}
            /\ OwnTerms(i) = <<>> => ScoresOfQuery[i].score = 0
            /\ \A j \in DOMAIN conversationHistory :
                 OwnTerms(i) = OwnTerms(j)
                   => ScoresOfQuery[i].score = ScoresOfQuery[j].score

\* a turn without message and response stands between two turns that hold
\* the terms of the query: it is scored 0 and they are not
C27_Witness ==
  /\ Returned
  /\ \E i \in 2..(Len(conversationHistory) - 1) :
       /\ conversationHistory[i].message = NoText
       /\ conversationHistory[i].response = NoText
       /\ ScoresOfQuery[i].score = 0
       /\ ScoresOfQuery[i - 1].score > 0
       /\ ScoresOfQuery[i + 1].score > 0


----------------------------------------------------------------------------
(* The order of the steps of one chat request and its outcome, checked under
   SpecChat *)

\* the step stores the upsert of p's call of updateUserContext, or fails it
StartsRecording(p) ==
  \/ updatedUser'[p] # updatedUser[p]
  \/ chat[p].at = "recording" /\ chat'[p].write = "failed"

\* C21: the steps of one request follow one another: the generator is called
\* only when retrieveUserContext has returned, updateUserContext makes its
\* first store call only when the generator has answered, the success
\* response is sent only when updateUserContext has returned (its trim
\* write, if one was due, is stored), and while the request reads the context
\* it has written nothing.
C21_StepsAreSequential ==
  [][\A p \in Procs :
       /\ chat'[p].generator # "none" => chat'[p].context = "retrieved"
       /\ StartsRecording(p) => chat[p].generator = "answered"
       /\ chat'[p].sent = "success"
            => /\ chat'[p].update = "returned"
               /\ chat'[p].write = "ok"
               /\ pc'[p] = "idle"
               /\ updatedUser'[p] # NoUser
       /\ chat[p].at = "retrieving"
            => /\ updatedUser[p] = NoUser
               /\ pc[p] = "idle"
               /\ chat[p].write = "none"]_vars

\* a request was answered with success after its upsert and its trim write
C21_Witness ==
  \E p \in Procs :
    /\ chat[p].sent = "success"
    /\ chat[p].context = "retrieved"
    /\ chat[p].generator = "answered"
    /\ Len(updatedUser[p].conversationHistory) = MAX_HISTORY + 1
    /\ Len(conversationHistory) = MAX_HISTORY

\* C22: whatever the message, a request whose store calls and whose generator
\* call do not fail is answered with success, the response carrying the
\* generated reply, and has appended its turn to the history.
C22_EveryMessageIsRecordedAndAnswered ==
  \A p \in Procs :
    (chat[p].at = "done" /\ chat[p].generator # "failed" /\ chat[p].write # "failed")
      => /\ chat[p].sent = "success"
         /\ chat[p].generator = "answered"
         /\ chat[p].body = chat[p].reply
         /\ updatedUser[p] # NoUser
         /\ \E last \in {Len(updatedUser[p].conversationHistory)} :
              /\ updatedUser[p].conversationHistory[last].message = chat[p].message
              /\ updatedUser[p].conversationHistory[last].response = chat[p].reply

\* C24: when updateUserContext raises a store failure to chatController, the
\* call has stored nothing: its findOneAndUpdate, which pushes the turn, did
\* not succeed.
C24_RaisedMeansNothingStored ==
  \A p \in Procs : chat[p].update = "raised" => updatedUser[p] = NoUser


----------------------------------------------------------------------------
(* The texts the Discord bot sends, checked under SpecDiscord *)

\* C28: every text passed to message.reply or message.channel.send, the
\* chunk with its prefix or its note, has at most discordLimit characters.
C28_EveryTextFitsDiscord ==
  \A k \in DOMAIN discord.passed : discord.passed[k] <= discordLimit

====
